---- MODULE Spec2Model ----
(***************************************************************************)
(* DynamicPDFGenerator (src/lib/dynamicPdfGenerator.ts): the single-page   *)
(* layout engine.  Lengths are in hundredths of a point (595.28pt = 59528), *)
(* font sizes too (9pt = 900).  A string is a sequence of glyphs; a glyph   *)
(* is named by its ASCII character or, outside ASCII, by its glyph name    *)
(* ("gbreve" = ğ, "dotlessi" = ı, "Idotaccent" = İ, "checkmark" = ✓,       *)
(* "ballotx" = ✗).  Fixed labels that are only drawn, never inspected, are  *)
(* single opaque runs, transliterated to ASCII.                            *)
(***************************************************************************)
EXTENDS Integers, Sequences, FiniteSets, TLC

VARIABLES pdfDoc, pageCount, unicodeFont, currentY, pageHeight, pageWidth,
          formData, pc, trace, result,
          invocations,
          documentBody, roots, htmlCall,
          pdfForm,
          database, storage, migration

\* the fields and the position of the one DynamicPDFGenerator Spec follows
generator == <<pdfDoc, pageCount, unicodeFont, currentY, pageHeight, pageWidth,
               formData, pc, trace, result>>

\* document.body, the React roots and the generatePdfFromHtml call
htmlVars == <<documentBody, roots, htmlCall>>

\* the forms table, the storage bucket and the migrateBase64ToStorage call
backend == <<database, storage, migration>>

\* state outside the one DynamicPDFGenerator that Spec follows
others == <<invocations, documentBody, roots, htmlCall, pdfForm, database, storage,
            migration>>

vars == <<pdfDoc, pageCount, unicodeFont, currentY, pageHeight, pageWidth,
          formData, pc, trace, result, invocations, documentBody, roots, htmlCall,
          pdfForm, database, storage, migration>>

----------------------------------------------------------------------------
(* Bounds of the model *)

\* generatePDF calls made on one generator
MaxCalls == 2
\* entries of formData.soforler
MaxDrivers == 2
\* wide glyphs ("M") at the head of a label/value string: none, or from
\* MinWide to MaxWide of them
MinWide == 20
MaxWide == 30
\* blanks after the wide glyphs
MaxGap == 4
\* narrow glyphs ("i") at the tail, when there is a tail
TailLen == 4
\* entries of a control or explanation array
MaxControls == 6
\* generatePdfFromHtml calls made one after another
MaxHtmlCalls == 2
\* rows of the forms table
MaxForms == 2
\* migrateBase64ToStorage calls made one after another
MaxMigrations == 2

----------------------------------------------------------------------------
(* Page constants *)

A4Width == 59528
A4Height == 84189
margin == 2000
lineHeight == 1200
sectionSpacing == 800
fieldSpacing == 600
rowHeight == 1200
labelWidth == 8000
\* pdf-lib scales glyph advances to 1000 units per em
UnitsPerEm == 1000

Min(a, b) == IF a <= b THEN a ELSE b
Max(a, b) == IF a >= b THEN a ELSE b

----------------------------------------------------------------------------
(* JavaScript values *)

Undef == [t |-> "undefined"]
Null == [t |-> "null"]
Bool(b) == [t |-> "boolean", b |-> b]
Num(n) == [t |-> "number", n |-> n]
Str(s) == [t |-> "string", s |-> s]
\* the ControlRow object Step3Checklist stores: {label, uygun, aciklama}
Row(uygun, aciklama) == [t |-> "object", uygun |-> uygun, aciklama |-> aciklama]
Arr(items) == [t |-> "array", items |-> items]
\* a signature payload: a base64 PNG (with or without the data: prefix) of
\* the given pixel size, or a non-empty string that is no PNG
Png(prefix, w, h) == [t |-> "png", prefix |-> prefix, width |-> w, height |-> h]
NotPng == [t |-> "notpng"]

Truthy(v) ==
  CASE v.t = "undefined" -> FALSE
    [] v.t = "null" -> FALSE
    [] v.t = "boolean" -> v.b
    [] v.t = "number" -> v.n # 0
    [] v.t = "string" -> v.s # <<>>
    [] OTHER -> TRUE

\* a || b
OrElse(a, b) == IF Truthy(a) THEN a ELSE b

----------------------------------------------------------------------------
(* String literals of the source, as glyph sequences *)

S_dash == <<"-">>
S_ellipsis == <<".", ".", ".">>
S_uygun == <<"u", "y", "g", "u", "n">>
S_uygunsuz == <<"u", "y", "g", "u", "n", "s", "u", "z">>
S_on == <<"o", "n">>
S_off == <<"o", "f", "f">>
S_degil == <<"d", "e", "gbreve", "i", "l">>
S_undefined == <<"u", "n", "d", "e", "f", "i", "n", "e", "d">>
S_null == <<"n", "u", "l", "l">>
S_Belirtilmemis == <<"B", "e", "l", "i", "r", "t", "i", "l", "m", "e", "m", "i", "scedilla">>
S_belirtilmemis == <<"b", "e", "l", "i", "r", "t", "i", "l", "m", "e", "m", "i", "scedilla">>
S_true == <<"t", "r", "u", "e">>
S_false == <<"f", "a", "l", "s", "e">>
S_Evet == <<"E", "v", "e", "t">>
S_Hayir == <<"H", "a", "y", "dotlessi", "r">>
\* '✓ Uygun', '✗ Uygun Değil'
S_Suitable == <<"checkmark", " ", "U", "y", "g", "u", "n">>
S_NotSuitable == <<"ballotx", " ", "U", "y", "g", "u", "n", " ", "D", "e", "gbreve", "i", "l">>

\* what String.prototype.trim takes for white space
IsSpace(ch) == ch \in {" ", "tab"}

RECURSIVE trimEnd(_)
trimEnd(s) ==
  IF s = <<>> THEN s
  ELSE IF IsSpace(s[Len(s)]) THEN trimEnd(SubSeq(s, 1, Len(s) - 1)) ELSE s

RECURSIVE trimStart(_)
trimStart(s) ==
  IF s = <<>> THEN s
  ELSE IF IsSpace(Head(s)) THEN trimStart(Tail(s)) ELSE s

trim(s) == trimEnd(trimStart(s))

\* s.includes(sub)
includes(s, sub) ==
  \E i \in 0..(Len(s) - Len(sub)) : SubSeq(s, i + 1, i + Len(sub)) = sub

\* String.prototype.toLowerCase on the glyphs of the model; "Idotaccent"
\* lower-cases to i followed by a combining dot
LowerOf(ch) ==
  CASE ch = "U" -> <<"u">> [] ch = "Y" -> <<"y">> [] ch = "G" -> <<"g">>
    [] ch = "N" -> <<"n">> [] ch = "D" -> <<"d">> [] ch = "E" -> <<"e">>
    [] ch = "L" -> <<"l">> [] ch = "O" -> <<"o">> [] ch = "T" -> <<"t">>
    [] ch = "I" -> <<"i">> [] ch = "Gbreve" -> <<"gbreve">>
    [] ch = "Idotaccent" -> <<"i", "dotaccentcmb">>
    [] OTHER -> <<ch>>

RECURSIVE toLowerCase(_)
toLowerCase(s) ==
  IF s = <<>> THEN <<>> ELSE LowerOf(Head(s)) \o toLowerCase(Tail(s))

RECURSIVE Repeat(_, _)
Repeat(ch, n) == IF n <= 0 THEN <<>> ELSE <<ch>> \o Repeat(ch, n - 1)

RECURSIVE Digits(_)
Digits(n) ==
  IF n < 10 THEN <<ToString(n)>> ELSE Digits(n \div 10) \o <<ToString(n % 10)>>

\* String(value) for the values getValueOrDash is given
StringOf(v) ==
  CASE v.t = "string" -> v.s
    [] v.t = "number" -> Digits(v.n)
    [] v.t = "boolean" -> IF v.b THEN S_true ELSE S_false
    [] v.t = "null" -> S_null
    [] OTHER -> S_undefined

----------------------------------------------------------------------------
(* Fonts *)

\* glyphs Roboto has and WinAnsi (the encoding of the standard Helvetica)
\* has not; pdf-lib throws when a standard font is asked to encode one
NotWinAnsiGlyphs ==
  {"gbreve", "Gbreve", "dotlessi", "Idotaccent", "scedilla", "Scedilla",
   "checkmark", "ballotx", "dotaccentcmb"}

\* fixed labels (opaque runs) whose original text holds such a glyph
NotWinAnsiRuns ==
  {"Yayin Tarihi: 01.01.2025", "ARAC GUVENLIK KONTROL FORMU", "TEMEL BILGILER",
   "ARAC BILGILERI", "SOFOR BILGILERI", "MUHUR KONTROL DETAYLARI",
   "FIZIKI KONTROL", "KONTROL EDEN BILGILERI", "Tasiyici Firma:",
   "Arac Turu:", "Muhur Durumu:", "Cekici Plaka:", "Yukleme Yeri:",
   "Oncesi Kantar (kg):", "Yukleme Tarihi:", "Sonrasi Kantar (kg):",
   "Sofor ", " Ad:", " Tel:", " Imza:", " Imza: (Imza bulunamadi)",
   "Sofor bilgisi girilmemis", "Mevcut Muhur:", "Yeni Muhur:", "Muhur:",
   "Muhur No:", "Saglamlik:", "Kilit Uygunlugu:", "Kontrol Eden Imza:",
   "Kontrol Eden Imza: (Imza bulunamadi)", "(Imza yuklenemedi)",
   "Genel Sonuc:", "Genel fiziki saglamligi ve butunlugu",
   "Herhangi bir zarar, yirtilma, sokulme veya parcalanma durumu yok",
   "Kapilarin mekanizmalarinin saglamligi",
   "Muhur ve kilit mekanizmalarinin saglamligi",
   "Arac konteyner ise 7 nokta kontrolu (on, sag, sol, zemin, tavan, ic/dis kapilar)",
   "Far arkasi kontrol", "Yakit depolari", "Surus mili",
   "Cekici & Dorse ici / zemin kontrol", "Cekici & Dorse alti genel kontrol",
   "Ic / dis kapilar", "Surucu depolari", "Hava depolari", "Cati"}

\* font.encodeText succeeds: an embedded TrueType font maps every code point
\* (a missing glyph becomes .notdef); a standard font throws outside WinAnsi
CanEncode(font, text) ==
  \/ font = "Roboto"
  \/ \A i \in 1..Len(text) : text[i] \notin (NotWinAnsiGlyphs \cup NotWinAnsiRuns)

\* advance of a glyph in 1/1000 em (a proportional sans-serif)
AdvanceWidth(ch) ==
  CASE ch = "M" -> 873 [] ch = "i" -> 243 [] ch = " " -> 248
    [] ch = "." -> 263 [] ch = "-" -> 276 [] ch = "l" -> 243
    [] ch = "checkmark" -> 600 [] ch = "ballotx" -> 600
    [] ch = "dotaccentcmb" -> 0
    [] OTHER -> 562

RECURSIVE SumAdvance(_)
SumAdvance(text) ==
  IF text = <<>> THEN 0 ELSE AdvanceWidth(Head(text)) + SumAdvance(Tail(text))

\* font.widthOfTextAtSize(text, size), times UnitsPerEm
measure(text, size) == SumAdvance(text) * size

----------------------------------------------------------------------------
(* The layout context threaded through the drawing code of one step: the   *)
(* fields of `this` the drawing code uses (the cursor, the font handle and *)
(* the page width), the trace of draw calls and cursor assignments, and    *)
(* the pending exception ("none" when there is none).  Once an exception   *)
(* is pending, every later statement is skipped.                          *)

CtxOf(y, tr, font, width) ==
  [y |-> y, trace |-> tr, err |-> "none", unicodeFont |-> font, pageWidth |-> width]

Ctx(y, tr) == CtxOf(y, tr, unicodeFont, pageWidth)

\* F applied to the value of v, v evaluated once
Bind(v, F(_)) == CHOOSE r \in {F(x) : x \in {v}} : TRUE

throw(ctx0, e) ==
  Bind(ctx0, LAMBDA ctx : IF ctx.err # "none" THEN ctx ELSE [ctx EXCEPT !.err = e])

\* an assignment to this.currentY made in function `by`
setY(ctx0, by, y) ==
  Bind(ctx0, LAMBDA ctx :
    IF ctx.err # "none" THEN ctx
    ELSE [ctx EXCEPT !.y = y,
                     !.trace = Append(@, [op |-> "cursor", by |-> by, y |-> y])])

drawText(ctx0, text, x, y, size, align, bold) ==
  Bind(ctx0, LAMBDA ctx :
    IF ctx.err # "none" THEN ctx
    ELSE IF ~CanEncode(ctx.unicodeFont, text) THEN [ctx EXCEPT !.err = "encode"]
    ELSE [ctx EXCEPT !.trace = Append(@, [op |-> "text", text |-> text, x |-> x,
                                           y |-> y, size |-> size,
                                           align |-> align, bold |-> bold])])

drawRectangle(ctx0, x, y, width, height) ==
  Bind(ctx0, LAMBDA ctx :
    IF ctx.err # "none" THEN ctx
    ELSE [ctx EXCEPT !.trace = Append(@, [op |-> "rect", x |-> x, y |-> y,
                                           width |-> width, height |-> height])])

\* variant: a section header that leaves the cursor a line higher
drawSectionHeaderRaising(ctx0, title) ==
  Bind(setY(ctx0, "drawSectionHeader", ctx0.y - 200), LAMBDA c1 :
    setY(drawText(drawRectangle(c1, margin, c1.y - 600, c1.pageWidth - (margin * 2), 1000),
                  title, c1.pageWidth \div 2, c1.y - 100, 900, "center", TRUE),
         "drawSectionHeader", c1.y + 1200))

drawSectionHeader(ctx0, title) ==
  Bind(setY(ctx0, "drawSectionHeader", ctx0.y - 200), LAMBDA c1 :
    setY(drawText(drawRectangle(c1, margin, c1.y - 600, c1.pageWidth - (margin * 2), 1000),
                  title, c1.pageWidth \div 2, c1.y - 100, 900, "center", TRUE),
         "drawSectionHeader", c1.y - 1200))

----------------------------------------------------------------------------
(* drawLabelValue: shrink, then truncate with an ellipsis *)

maxValueWidth(width) == ((width \div 2) - 3000) - labelWidth - 1000

\* does text, at size, overflow width (both sides times UnitsPerEm)
Overflows(text, size, width) == measure(text, size) > width * UnitsPerEm

\* variant: the loop steps by a whole point
RECURSIVE ShrinkSizeByPoint(_, _, _)
ShrinkSizeByPoint(text, fontSize, maxWidth) ==
  IF Overflows(text, fontSize, maxWidth) /\ fontSize > 700
  THEN ShrinkSizeByPoint(text, fontSize - 100, maxWidth)
  ELSE fontSize

RECURSIVE ShrinkSize(_, _, _)
ShrinkSize(text, fontSize, maxWidth) ==
  IF Overflows(text, fontSize, maxWidth) /\ fontSize > 700
  THEN ShrinkSize(text, fontSize - 50, maxWidth)
  ELSE fontSize

\* variant: no room kept for the ellipsis
availableWidthWithoutEllipsis(fontSize, maxWidth) == maxWidth * UnitsPerEm

availableWidth(fontSize, maxWidth) ==
  Max(maxWidth * UnitsPerEm - measure(S_ellipsis, fontSize), 0)

\* the for..of loop over the first n glyphs: how many of them are appended
\* before the running width passes avail
RECURSIVE TruncatedLength(_, _, _, _)
TruncatedLength(value, n, fontSize, avail) ==
  IF n >= Len(value) THEN n
  ELSE IF measure(SubSeq(value, 1, n + 1), fontSize) > avail THEN n
  ELSE TruncatedLength(value, n + 1, fontSize, avail)

Truncated(value, fontSize, maxWidth) ==
  SubSeq(value, 1, TruncatedLength(value, 0, fontSize, availableWidth(fontSize, maxWidth)))

\* variant: the ellipsis only where it leaves the string shorter than the value
fitValueShorterOnly(value, maxWidth) ==
  Bind(ShrinkSize(value, 900, maxWidth), LAMBDA fontSize :
    IF Overflows(value, fontSize, maxWidth)
    THEN Bind(trimEnd(Truncated(value, fontSize, maxWidth)), LAMBDA cut :
           [size |-> fontSize,
            display |-> IF Len(cut) + 3 < Len(value) THEN cut \o S_ellipsis ELSE cut,
            truncated |-> TRUE])
    ELSE [size |-> fontSize, display |-> value, truncated |-> FALSE])

\* [size, display, truncated]: what drawLabelValue finally draws
fitValue(value, maxWidth) ==
  Bind(ShrinkSize(value, 900, maxWidth), LAMBDA fontSize :
    IF Overflows(value, fontSize, maxWidth)
    THEN Bind(trimEnd(Truncated(value, fontSize, maxWidth)), LAMBDA cut :
           [size |-> fontSize,
            display |-> IF Len(cut) < Len(value) THEN cut \o S_ellipsis ELSE cut,
            truncated |-> TRUE])
    ELSE [size |-> fontSize, display |-> value, truncated |-> FALSE])

\* variant: the line is as high as the font size asks for
drawLabelValueBySize(ctx0, label, value0, x) ==
  Bind(ctx0, LAMBDA ctx : Bind(value0, LAMBDA value :
    IF ctx.err # "none" THEN ctx
    ELSE IF ~CanEncode(ctx.unicodeFont, value) THEN [ctx EXCEPT !.err = "encode"]
    ELSE Bind(fitValue(value, maxValueWidth(ctx.pageWidth)), LAMBDA f :
           setY(drawText(drawText(ctx, label, x, ctx.y, f.size, "left", TRUE),
                         f.display, x + labelWidth, ctx.y, f.size, "left", FALSE),
                "drawLabelValue", ctx.y - (f.size + 300)))))

drawLabelValue(ctx0, label, value0, x) ==
  Bind(ctx0, LAMBDA ctx : Bind(value0, LAMBDA value :
    IF ctx.err # "none" THEN ctx
    ELSE IF ~CanEncode(ctx.unicodeFont, value) THEN [ctx EXCEPT !.err = "encode"]
    ELSE Bind(fitValue(value, maxValueWidth(ctx.pageWidth)), LAMBDA f :
           setY(drawText(drawText(ctx, label, x, ctx.y, f.size, "left", TRUE),
                         f.display, x + labelWidth, ctx.y, f.size, "left", FALSE),
                "drawLabelValue", ctx.y - lineHeight))))

\* rows: a sequence of [label, value, x], drawn top to bottom
RECURSIVE drawRows(_, _)
drawRows(ctx0, rows) ==
  IF rows = <<>> THEN ctx0
  ELSE Bind(drawLabelValue(ctx0, Head(rows).label, Head(rows).value, Head(rows).x),
            LAMBDA c : drawRows(c, Tail(rows)))

----------------------------------------------------------------------------
(* embedSignature *)

Placeholder == <<"(Imza yuklenemedi)">>

\* variant: no try/catch around embedPng
embedSignatureWithoutCatch(ctx0, base64Data, x, y, width, height) ==
  Bind(ctx0, LAMBDA ctx :
    IF ctx.err # "none" THEN ctx
    ELSE IF base64Data.t = "png"
    THEN [ctx EXCEPT !.trace = Append(@, [op |-> "image", x |-> x, y |-> y,
                                           width |-> width, height |-> height])]
    ELSE throw(ctx, "embedPng"))

\* variant: a wide image bound by the height of the box, any other by its
\* width
embedSignatureSwapped(ctx0, base64Data, x, y, width, height) ==
  Bind(ctx0, LAMBDA ctx :
    IF ctx.err # "none" THEN ctx
    ELSE IF base64Data.t = "png"
    THEN LET iw == base64Data.width
             ih == base64Data.height
             wide == iw * height > width * ih
             finalWidth == IF wide THEN (height * iw) \div ih ELSE width
             finalHeight == IF wide THEN height ELSE (width * ih) \div iw
         IN  [ctx EXCEPT !.trace =
                Append(@, [op |-> "image",
                           x |-> x + (width - finalWidth) \div 2,
                           y |-> y + (height - finalHeight) \div 2,
                           width |-> finalWidth, height |-> finalHeight])]
    ELSE drawText(ctx, Placeholder, x, y, 800, "left", FALSE))

\* variant: the image is stretched over the whole box
embedSignatureStretched(ctx0, base64Data, x, y, width, height) ==
  Bind(ctx0, LAMBDA ctx :
    IF ctx.err # "none" THEN ctx
    ELSE IF base64Data.t = "png"
    THEN [ctx EXCEPT !.trace = Append(@, [op |-> "image", x |-> x, y |-> y,
                                           width |-> width, height |-> height])]
    ELSE drawText(ctx, Placeholder, x, y, 800, "left", FALSE))

embedSignature(ctx0, base64Data, x, y, width, height) ==
  Bind(ctx0, LAMBDA ctx :
    IF ctx.err # "none" THEN ctx
    ELSE IF base64Data.t = "png"
    THEN LET iw == base64Data.width
             ih == base64Data.height
             wide == iw * height > width * ih
             finalWidth == IF wide THEN width ELSE (height * iw) \div ih
             finalHeight == IF wide THEN (width * ih) \div iw ELSE height
         IN  [ctx EXCEPT !.trace =
                Append(@, [op |-> "image",
                           x |-> x + (width - finalWidth) \div 2,
                           y |-> y + (height - finalHeight) \div 2,
                           width |-> finalWidth, height |-> finalHeight])]
    ELSE \* embedPng threw: caught, the placeholder is drawn instead
         drawText(ctx, Placeholder, x, y, 800, "left", FALSE))

----------------------------------------------------------------------------
(* Field helpers *)

\* variant: without the test for a whitespace-only string
getValueOrDashUntrimmed(value) ==
  IF \/ value.t \in {"null", "undefined"}
     \/ /\ value.t = "string"
        /\ value.s \in {<<>>, S_undefined, S_null, S_dash,
                        S_Belirtilmemis, S_belirtilmemis}
  THEN S_dash
  ELSE trim(StringOf(value))

getValueOrDash(value) ==
  IF \/ value.t \in {"null", "undefined"}
     \/ /\ value.t = "string"
        /\ \/ value.s \in {<<>>, S_undefined, S_null, S_dash,
                           S_Belirtilmemis, S_belirtilmemis}
           \/ trim(value.s) = <<>>
  THEN S_dash
  ELSE trim(StringOf(value))

formatCheckResult(value) ==
  IF value = Bool(TRUE) \/ value = Str(S_uygun) THEN S_Suitable
  ELSE IF value = Bool(FALSE) \/ value = Str(S_uygunsuz) THEN S_NotSuitable
  ELSE S_dash

----------------------------------------------------------------------------
(* Section routines.  Each takes the context at its entry and returns the  *)
(* context at its exit.                                                    *)

leftCol == margin
rightCol(width) == (width \div 2) + 1000

LV(label, value, x) == [label |-> label, value |-> value, x |-> x]

\* variant: the cursor is put below column B, whatever floorY is
twoColumnsWithoutFloor(ctx0, by, name, top, rowsA, rowsB, floorY, spacing) ==
  Bind(drawRows(setY(ctx0, by, top), rowsA), LAMBDA cA :
  Bind(drawRows(setY(cA, by, top), rowsB), LAMBDA cB :
  Bind(setY(cB, by, cB.y - spacing), LAMBDA cE :
    IF cE.err # "none" THEN cE
    ELSE [cE EXCEPT !.trace = Append(@, [op |-> "block", name |-> name,
                                          yAfterA |-> cA.y, yAfterB |-> cB.y,
                                          spacing |-> spacing, y |-> cE.y])])))

\* the two-column pattern: column A from top, the cursor reset to top,
\* column B, then currentY = Math.min(floorY, this.currentY) - spacing.
\* The "block" entry records what the cursor was after each column.
twoColumns(ctx0, by, name, top, rowsA, rowsB, floorY, spacing) ==
  Bind(drawRows(setY(ctx0, by, top), rowsA), LAMBDA cA :
  Bind(drawRows(setY(cA, by, top), rowsB), LAMBDA cB :
  Bind(setY(cB, by, Min(floorY, cB.y) - spacing), LAMBDA cE :
    IF cE.err # "none" THEN cE
    ELSE [cE EXCEPT !.trace = Append(@, [op |-> "block", name |-> name,
                                          yAfterA |-> cA.y, yAfterB |-> cB.y,
                                          spacing |-> spacing, y |-> cE.y])])))

drawDocumentHeader(ctx) ==
  LET rightX == ctx.pageWidth - margin
      startY == ctx.y
  IN  setY(drawText(drawText(drawText(ctx,
               <<"Dokuman No: AKF-001">>, rightX, startY, 800, "right", FALSE),
               <<"Yayin Tarihi: 01.01.2025">>, rightX, startY - 1000, 800, "right", FALSE),
               <<"Revizyon: 01">>, rightX, startY - 2000, 800, "right", FALSE),
           "drawDocumentHeader", ctx.y - 3500)

\* variant: the cursor is lowered by 48 after the title
drawTitleWithGap(ctx) ==
  setY(drawText(ctx, <<"ARAC GUVENLIK KONTROL FORMU">>, ctx.pageWidth \div 2, ctx.y,
                1400, "center", TRUE),
       "addComprehensivePage", ctx.y - 4800)

drawTitle(ctx) ==
  setY(drawText(ctx, <<"ARAC GUVENLIK KONTROL FORMU">>, ctx.pageWidth \div 2, ctx.y,
                1400, "center", TRUE),
       "addComprehensivePage", ctx.y - 1800)

drawBasicInfo(ctx, fd) ==
  LET startY == ctx.y
  IN  twoColumns(ctx, "drawBasicInfo", "basic", startY,
        << LV(<<"MRN No:">>, getValueOrDash(OrElse(fd.mrnNo, fd.mrn)), leftCol),
           LV(<<"Rejim Hak Sahibi:">>, getValueOrDash(OrElse(fd.rejimHakSahibiAdi, fd.rejimHak)), leftCol),
           LV(<<"Sevk Durumu:">>, getValueOrDash(fd.sevkDurumu), leftCol) >>,
        << LV(<<"Tasiyici Firma:">>, getValueOrDash(fd.tasiyiciFirma), rightCol(ctx.pageWidth)),
           LV(<<"Arac Turu:">>, getValueOrDash(fd.aracTuru), rightCol(ctx.pageWidth)),
           LV(<<"Muhur Durumu:">>, getValueOrDash(fd.muhurDurumu), rightCol(ctx.pageWidth)) >>,
        startY - (3 * lineHeight), sectionSpacing)

drawVehicleInfo(ctx, fd) ==
  LET startY == ctx.y
  IN  twoColumns(ctx, "drawVehicleInfo", "vehicle", startY,
        << LV(<<"Cekici Plaka:">>, getValueOrDash(OrElse(fd.cekiciPlaka, fd.cekici)), leftCol),
           LV(<<"Konteyner No:">>, getValueOrDash(fd.konteynerNo), leftCol),
           LV(<<"Yukleme Yeri:">>, getValueOrDash(OrElse(fd.loadingLocation, fd.yuklemeYeri)), leftCol),
           LV(<<"Oncesi Kantar (kg):">>, getValueOrDash(OrElse(fd.preLoadingWeight, fd.yuklemeOncesiKantar)), leftCol) >>,
        << LV(<<"Dorse Plaka:">>, getValueOrDash(OrElse(fd.dorsePlaka, fd.dorse)), rightCol(ctx.pageWidth)),
           LV(<<"Kamyon Plaka:">>, getValueOrDash(fd.kamyonPlaka), rightCol(ctx.pageWidth)),
           LV(<<"Yukleme Tarihi:">>, getValueOrDash(fd.yuklemeTarihi), rightCol(ctx.pageWidth)),
           LV(<<"Sonrasi Kantar (kg):">>, getValueOrDash(OrElse(fd.postLoadingWeight, fd.izinliGondericiKantar)), rightCol(ctx.pageWidth)) >>,
        startY - (4 * lineHeight), sectionSpacing)

\* the body of the driver loop for soforler[i - 1]; ctx is at the loop head
drawDriver(ctx, driver, i) ==
  LET startY == ctx.y
  IN  IF driver.t # "object" THEN throw(setY(ctx, "drawDriverInfo", startY), "TypeError")
      ELSE
      Bind(setY(drawLabelValue(setY(drawLabelValue(setY(ctx, "drawDriverInfo", startY),
               <<"Sofor ", ToString(i), " Ad:">>,
               getValueOrDash(OrElse(driver.ad, driver.adSoyad)), leftCol),
             "drawDriverInfo", startY),
             <<"Sofor ", ToString(i), " Tel:">>,
             getValueOrDash(OrElse(driver.tel, driver.telefon)), rightCol(ctx.pageWidth)),
           "drawDriverInfo", startY - lineHeight - fieldSpacing), LAMBDA c5 :
        IF Truthy(driver.imza)
        THEN setY(embedSignature(drawText(c5, <<"Sofor ", ToString(i), " Imza:">>,
                                          leftCol, c5.y, 900, "left", FALSE),
                                 driver.imza, leftCol + 8000, c5.y - 1800, 7000, 1800),
                  "drawDriverInfo", c5.y - 2500)
        ELSE setY(drawText(c5, <<"Sofor ", ToString(i), " Imza: (Imza bulunamadi)">>,
                           leftCol, c5.y, 800, "left", FALSE),
                  "drawDriverInfo", c5.y - fieldSpacing))

RECURSIVE drawDrivers(_, _, _, _)
drawDrivers(ctx0, drivers, i, n) ==
  IF i > n THEN ctx0
  ELSE Bind(ctx0, LAMBDA ctx :
         Bind(drawDriver(ctx, drivers[i], i), LAMBDA c : drawDrivers(c, drivers, i + 1, n)))

drawDriverInfo(ctx, fd) ==
  Bind(IF fd.soforler.t = "array" /\ Len(fd.soforler.items) > 0
       THEN drawDrivers(ctx, fd.soforler.items, 1, Min(Len(fd.soforler.items), 2))
       ELSE setY(drawText(ctx, <<"Sofor bilgisi girilmemis">>, margin, ctx.y,
                          900, "left", FALSE),
                 "drawDriverInfo", ctx.y - lineHeight),
       LAMBDA body : setY(body, "drawDriverInfo", body.y - sectionSpacing))

SealObject(evrakUyum, saglamlik, gerginlik, kilitUygunluk) ==
  [t |-> "object", evrakUyum |-> evrakUyum, saglamlik |-> saglamlik,
   gerginlik |-> gerginlik, kilitUygunluk |-> kilitUygunluk]

SealRows(control, x) ==
  << LV(<<"Evrakla Uyum:">>, formatCheckResult(control.evrakUyum), x),
     LV(<<"Saglamlik:">>, formatCheckResult(control.saglamlik), x),
     LV(<<"Gerginlik:">>, formatCheckResult(control.gerginlik), x),
     LV(<<"Kilit Uygunlugu:">>, formatCheckResult(control.kilitUygunluk), x) >>

\* the block drawn when muhurDurumu === "Evet"
drawExistingSeal(ctx0, fd) ==
  Bind(ctx0, LAMBDA ctx :
    LET startY == ctx.y
    IN  twoColumns(setY(drawText(ctx, <<"Mevcut Muhur:">>, margin, ctx.y, 1000, "left", TRUE),
                        "drawSealInfo", ctx.y - lineHeight),
          "drawSealInfo", "existingSeal", startY - lineHeight,
          << LV(<<"Muhur No:">>, getValueOrDash(fd.muhurNum), leftCol) >>,
          IF Truthy(fd.muhurKontrol) THEN SealRows(fd.muhurKontrol, rightCol(ctx.pageWidth)) ELSE <<>>,
          startY - (4 * lineHeight), fieldSpacing))

drawNewSeal(ctx0, fd) ==
  Bind(ctx0, LAMBDA ctx :
    LET newSealStartY == ctx.y
        sealLabel == IF fd.muhurDurumu = Str(S_Evet) THEN <<"Yeni Muhur:">> ELSE <<"Muhur:">>
        newSealNumber == OrElse(fd.yeniMuhurNum, fd.cikis_yeniMuhurNo)
        newSealControl ==
          IF Truthy(fd.yeniMuhurKontrol) THEN fd.yeniMuhurKontrol
          ELSE SealObject(fd.cikis_muhurEvrakUygun, fd.cikis_muhurSaglamlik,
                          fd.cikis_muhurGerginlik, fd.cikis_muhurKilit)
    IN  twoColumns(setY(drawText(ctx, sealLabel, margin, ctx.y, 1000, "left", TRUE),
                        "drawSealInfo", ctx.y - lineHeight),
          "drawSealInfo", "newSeal", newSealStartY - lineHeight,
          << LV(<<"Muhur No:">>, getValueOrDash(newSealNumber), leftCol) >>,
          SealRows(newSealControl, rightCol(ctx.pageWidth)),
          newSealStartY - (4 * lineHeight), sectionSpacing))

drawSealInfo(ctx, fd) ==
  drawNewSeal(IF fd.muhurDurumu = Str(S_Evet) THEN drawExistingSeal(ctx, fd) ELSE ctx, fd)

fizikiLabels ==
  << [text |-> "Genel fiziki saglamligi ve butunlugu", length |-> 36],
     [text |-> "Herhangi bir zarar, yirtilma, sokulme veya parcalanma durumu yok", length |-> 64],
     [text |-> "Kapilarin mekanizmalarinin saglamligi", length |-> 37],
     [text |-> "Muhur ve kilit mekanizmalarinin saglamligi", length |-> 42],
     [text |-> "Arac konteyner ise 7 nokta kontrolu (on, sag, sol, zemin, tavan, ic/dis kapilar)", length |-> 80] >>

zulaLabels ==
  << [text |-> "Tamponlar", length |-> 9],
     [text |-> "Motor", length |-> 5],
     [text |-> "Far arkasi kontrol", length |-> 18],
     [text |-> "Lastikler", length |-> 9],
     [text |-> "Tekerlek ustu kontrol", length |-> 21],
     [text |-> "Yedek lastik", length |-> 12],
     [text |-> "Yakit depolari", length |-> 14],
     [text |-> "Egzoz", length |-> 5],
     [text |-> "Surus mili", length |-> 10],
     [text |-> "Cekici & Dorse ici / zemin kontrol", length |-> 34],
     [text |-> "Cekici & Dorse alti genel kontrol", length |-> 33],
     [text |-> "Yan duvarlar", length |-> 12],
     [text |-> "On duvar", length |-> 8],
     [text |-> "Ic / dis kapilar", length |-> 16],
     [text |-> "Surucu depolari", length |-> 15],
     [text |-> "Hava depolari", length |-> 13],
     [text |-> "Cati", length |-> 4],
     [text |-> "Sogutma unitesi", length |-> 15] >>

\* arr?.[i - 1]
At(arr, i) ==
  IF arr.t = "array" /\ i <= Len(arr.items) THEN arr.items[i] ELSE Undef

\* current[key]: an element of an array, a property of an object
Index(v, key) ==
  CASE v.t = "array" -> At(v, key)
    [] v.t = "object" /\ key \in DOMAIN v -> v[key]
    [] OTHER -> Undef

\* variant: without the checkbox strings "on" and "off"
statusTextWithoutCheckbox(control) ==
  IF control = Bool(TRUE) \/ control = Str(S_uygun)
  THEN S_Suitable
  ELSE IF control = Bool(FALSE) \/ control = Str(S_uygunsuz)
  THEN S_NotSuitable
  ELSE IF control.t = "string" /\ includes(toLowerCase(control.s), S_uygun)
  THEN IF includes(toLowerCase(control.s), S_degil) THEN S_NotSuitable ELSE S_Suitable
  ELSE S_dash

\* the status token drawControlTable writes for a raw control value
statusText(control) ==
  IF control = Bool(TRUE) \/ control = Str(S_uygun) \/ control = Str(S_on)
  THEN S_Suitable
  ELSE IF control = Bool(FALSE) \/ control = Str(S_uygunsuz) \/ control = Str(S_off)
  THEN S_NotSuitable
  ELSE IF control.t = "string" /\ includes(toLowerCase(control.s), S_uygun)
  THEN IF includes(toLowerCase(control.s), S_degil) THEN S_NotSuitable ELSE S_Suitable
  ELSE S_dash

\* the explanation cell of a row: the text and its size, or a TypeError
explanationCell(explanation) ==
  IF ~Truthy(explanation) THEN [err |-> "none", text |-> S_dash, size |-> 800]
  ELSE IF explanation.t # "string" THEN [err |-> "TypeError", text |-> S_dash, size |-> 800]
  ELSE IF trim(explanation.s) # <<>>
  THEN [err |-> "none", text |-> explanation.s,
        size |-> IF Len(explanation.s) > 20 THEN 700 ELSE 800]
  ELSE [err |-> "none", text |-> S_dash, size |-> 800]

\* one pass of the loop of drawControlTable; ctx is at the loop head
drawControlRow(ctx, labels, controls, explanations, i) ==
  LET labelCol == margin
      statusCol == margin + 20000
      explanationCol == margin + 28000
      y == ctx.y
      numberedLabel == <<ToString(i), ". ", labels[i].text>>
      numberedLength == Len(Digits(i)) + 2 + labels[i].length
      labelFontSize == IF numberedLength > 30 THEN 700 ELSE 800
  IN  Bind(explanationCell(At(explanations, i)), LAMBDA cell :
        Bind(drawText(drawText(ctx, numberedLabel, labelCol, y, labelFontSize, "left", FALSE),
                      statusText(At(controls, i)), statusCol, y, 800, "left", FALSE),
             LAMBDA c2 :
               setY(IF cell.err # "none" THEN throw(c2, cell.err)
                    ELSE drawText(c2, cell.text, explanationCol, y, cell.size, "left", FALSE),
                    "drawControlTable", y - rowHeight)))

RECURSIVE drawControlRows(_, _, _, _, _)
drawControlRows(ctx0, labels, controls, explanations, i) ==
  IF i > Len(labels) THEN ctx0
  ELSE Bind(ctx0, LAMBDA ctx :
         Bind(drawControlRow(ctx, labels, controls, explanations, i), LAMBDA c :
           drawControlRows(c, labels, controls, explanations, i + 1)))

\* variant: one row per entry of controls, not per label
drawControlTablePerControl(ctx, labels, controls, explanations) ==
  Bind(drawControlRows(ctx,
         IF controls.t = "array"
         THEN SubSeq(labels, 1, Min(Len(labels), Len(controls.items)))
         ELSE <<>>,
         controls, explanations, 1), LAMBDA c1 :
    setY(c1, "drawControlTable", c1.y - fieldSpacing))

drawControlTable(ctx, labels, controls, explanations) ==
  Bind(drawControlRows(ctx, labels, controls, explanations, 1), LAMBDA c1 :
    setY(c1, "drawControlTable", c1.y - fieldSpacing))

drawPhysicalControl(ctx, fd) ==
  drawControlTable(ctx, fizikiLabels, fd.fizikiKontrol, fd.fizikiAciklama)

drawHiddenCompartmentControl(ctx, fd) ==
  drawControlTable(ctx, zulaLabels, fd.zulaKontrol, fd.zulaAciklama)

\* variant: the clock is read whatever the record holds
drawInspectorInfoByClock(ctx, fd, now) ==
  LET startY == ctx.y
      timestamp == Str(now)
  IN  Bind(drawLabelValue(
             twoColumns(ctx, "drawInspectorInfo", "inspector", startY,
               << LV(<<"Kontrol Eden Ad Soyad:">>, getValueOrDash(fd.kontrolEdenAd), leftCol) >>,
               << LV(<<"Kontrol Tarihi/Saati:">>, getValueOrDash(timestamp), rightCol(ctx.pageWidth)) >>,
               startY - lineHeight, fieldSpacing),
             <<"Genel Sonuc:">>, getValueOrDash(fd.genelSonuc), leftCol), LAMBDA c2 :
      Bind(setY(c2, "drawInspectorInfo", c2.y - fieldSpacing), LAMBDA c3 :
        IF Truthy(fd.kontrolEdenImza)
        THEN setY(embedSignature(drawText(c3, <<"Kontrol Eden Imza:">>, leftCol, c3.y,
                                          900, "left", FALSE),
                                 fd.kontrolEdenImza, leftCol + 9000, c3.y - 1800, 7000, 1800),
                  "drawInspectorInfo", c3.y - 2500)
        ELSE setY(drawText(c3, <<"Kontrol Eden Imza: (Imza bulunamadi)">>, leftCol, c3.y,
                           900, "left", FALSE),
                  "drawInspectorInfo", c3.y - lineHeight)))

\* now: new Date().toLocaleString('tr-TR')
drawInspectorInfo(ctx, fd, now) ==
  LET startY == ctx.y
      timestamp == OrElse(fd.timestamp, Str(now))
  IN  Bind(drawLabelValue(
             twoColumns(ctx, "drawInspectorInfo", "inspector", startY,
               << LV(<<"Kontrol Eden Ad Soyad:">>, getValueOrDash(fd.kontrolEdenAd), leftCol) >>,
               << LV(<<"Kontrol Tarihi/Saati:">>, getValueOrDash(timestamp), rightCol(ctx.pageWidth)) >>,
               startY - lineHeight, fieldSpacing),
             <<"Genel Sonuc:">>, getValueOrDash(fd.genelSonuc), leftCol), LAMBDA c2 :
      Bind(setY(c2, "drawInspectorInfo", c2.y - fieldSpacing), LAMBDA c3 :
        IF Truthy(fd.kontrolEdenImza)
        THEN setY(embedSignature(drawText(c3, <<"Kontrol Eden Imza:">>, leftCol, c3.y,
                                          900, "left", FALSE),
                                 fd.kontrolEdenImza, leftCol + 9000, c3.y - 1800, 7000, 1800),
                  "drawInspectorInfo", c3.y - 2500)
        ELSE setY(drawText(c3, <<"Kontrol Eden Imza: (Imza bulunamadi)">>, leftCol, c3.y,
                           900, "left", FALSE),
                  "drawInspectorInfo", c3.y - lineHeight)))

----------------------------------------------------------------------------
(* Input records *)

\* a FormData with every field absent
EmptyForm ==
  [mrnNo |-> Undef,
   mrn |-> Undef,
   rejimHakSahibiAdi |-> Undef,
   rejimHak |-> Undef,
   sevkDurumu |-> Undef,
   tasiyiciFirma |-> Undef,
   aracTuru |-> Undef,
   muhurDurumu |-> Undef,
   cekiciPlaka |-> Undef,
   cekici |-> Undef,
   konteynerNo |-> Undef,
   loadingLocation |-> Undef,
   yuklemeYeri |-> Undef,
   preLoadingWeight |-> Undef,
   yuklemeOncesiKantar |-> Undef,
   dorsePlaka |-> Undef,
   dorse |-> Undef,
   kamyonPlaka |-> Undef,
   yuklemeTarihi |-> Undef,
   postLoadingWeight |-> Undef,
   izinliGondericiKantar |-> Undef,
   soforler |-> Undef,
   muhurNum |-> Undef,
   muhurKontrol |-> Undef,
   yeniMuhurNum |-> Undef,
   cikis_yeniMuhurNo |-> Undef,
   yeniMuhurKontrol |-> Undef,
   cikis_muhurEvrakUygun |-> Undef,
   cikis_muhurSaglamlik |-> Undef,
   cikis_muhurGerginlik |-> Undef,
   cikis_muhurKilit |-> Undef,
   fizikiKontrol |-> Undef,
   fizikiAciklama |-> Undef,
   zulaKontrol |-> Undef,
   zulaAciklama |-> Undef,
   kontrolEdenAd |-> Undef,
   kontrolEdenImza |-> Undef,
   timestamp |-> Undef,
   genelSonuc |-> Undef]

Driver(ad, tel, imza) ==
  [t |-> "object", ad |-> ad, adSoyad |-> Undef, tel |-> tel, telefon |-> Undef,
   imza |-> imza]

S_name == <<"A", "l", "i">>
S_date == <<"0", "1", ".", "0", "1", ".", "2", "0", "2", "5">>

\* what new Date().toLocaleString('tr-TR') may return
ClockStrings ==
  { <<"0", "2", ".", "0", "1", ".", "2", "0", "2", "5">>,
    <<"0", "3", ".", "0", "1", ".", "2", "0", "2", "5">> }

Signatures == {Undef, Png(TRUE, 400, 50), NotPng}

\* arrays of every length up to maxLen that run through vals from every
\* starting point
Rotations(vals, maxLen) ==
  { Arr([i \in 1..n |-> vals[((i + s) % Len(vals)) + 1]]) :
      n \in 0..maxLen, s \in 0..(Len(vals) - 1) }

\* a driver without signature, with a signature, with an undecodable
\* signature, and a null entry
DriverKinds ==
  << Driver(Str(S_name), Undef, Undef), Driver(Str(S_name), Undef, Png(TRUE, 400, 50)),
     Driver(Str(S_name), Undef, NotPng), Null >>

DriverArrays == Rotations(DriverKinds, MaxDrivers)

SomeSeal == SealObject(Bool(TRUE), Bool(FALSE), Null, Undef)

BaseForm == [EmptyForm EXCEPT !.timestamp = Str(S_date)]

\* records that differ in what is drawn: drivers, seal blocks, signatures
StructForms ==
  { [BaseForm EXCEPT !.soforler = ds, !.muhurDurumu = Str(md), !.muhurKontrol = mk,
                     !.kontrolEdenImza = sig] :
      ds \in DriverArrays, md \in {S_Evet, S_Hayir}, mk \in {Undef, SomeSeal},
      sig \in Signatures }

\* label/value strings: wide glyphs, blanks, and a narrow tail or none
FitValues ==
  { Repeat("M", a) \o Repeat(" ", b) \o Repeat("i", c) :
      a \in {0} \cup MinWide..MaxWide, b \in 0..MaxGap, c \in {0, TailLen} }

TextForms == { [BaseForm EXCEPT !.tasiyiciFirma = Str(v)] : v \in FitValues }

RawControls ==
  << Bool(TRUE), Str(S_uygun), Str(S_on), Bool(FALSE), Str(S_uygunsuz), Str(S_off),
     Null, Undef, Str(<<>>), Num(42),
     Row(Bool(TRUE), Undef), Row(Bool(FALSE), Undef), Row(Null, Undef),
     Str(<<"U", "y", "g", "u", "n">>),
     Str(<<"u", "y", "g", "u", "n", " ", "d", "e", "gbreve", "i", "l">>),
     Str(S_degil),
     Str(<<"n", "o", "t", " ", "u", "y", "g", "u", "n">>),
     Str(<<"U", "Y", "G", "U", "N", " ", "D", "E", "Gbreve", "Idotaccent", "L">>) >>

RawExplanations ==
  << Str(<<"o", "k">>), Undef, Str(<<>>), Str(<<" ", " ">>), Str(Repeat("a", 21)) >>

TableForms ==
  { [BaseForm EXCEPT !.fizikiKontrol = a, !.zulaKontrol = a] :
      a \in Rotations(RawControls, MaxControls) \cup {Undef} }
  \cup
  { [BaseForm EXCEPT !.fizikiKontrol = Arr([i \in 1..5 |-> Str(S_uygun)]),
                     !.fizikiAciklama = e, !.zulaAciklama = e] :
      e \in Rotations(RawExplanations, MaxControls) }
  \cup
  { [BaseForm EXCEPT !.fizikiKontrol = Arr(<<Row(Bool(TRUE), Str(<<"o", "k">>))>>),
                     !.fizikiAciklama = e] :
      e \in {Undef, Arr(<<Str(<<"o", "k">>)>>), Arr(<<Str(<<"n", "o">>)>>)} }

\* what a scalar field of a record may hold
ScalarValues ==
  { Undef, Null, Str(<<>>), Str(<<" ", "tab">>), Str(S_undefined), Str(S_null), Str(S_dash),
    Str(S_Belirtilmemis), Str(S_belirtilmemis), Str(<<" ", "n", "u", "l", "l", " ">>),
    Str(<<"tab", "a", " ", "b", " ">>), Num(0), Num(42), Bool(FALSE), Bool(TRUE) }

ScalarForms == { [BaseForm EXCEPT !.sevkDurumu = v] : v \in ScalarValues }

\* inspector signatures of other shapes than the wide one of the driver:
\* square, tall, and of the very proportions of the signature box
ImageForms ==
  { [BaseForm EXCEPT !.kontrolEdenImza = sig,
                     !.soforler = Arr(<<Driver(Str(S_name), Undef, Png(TRUE, 400, 50))>>)] :
      sig \in {Png(FALSE, 100, 100), Png(TRUE, 50, 200), Png(TRUE, 70, 18)} }

Forms == StructForms \cup TextForms \cup TableForms \cup ScalarForms \cup ImageForms
         \cup {[BaseForm EXCEPT !.timestamp = Undef]}

----------------------------------------------------------------------------
(* The generator *)

Idle == [at |-> "idle", sec |-> 0]

NoResult == [status |-> "none", error |-> "none", at |-> "none", pages |-> 0]

\* the sections of addComprehensivePage, in order
Sections ==
  << [title |-> <<"TEMEL BILGILER">>, routine |-> "drawBasicInfo"],
     [title |-> <<"ARAC BILGILERI">>, routine |-> "drawVehicleInfo"],
     [title |-> <<"SOFOR BILGILERI">>, routine |-> "drawDriverInfo"],
     [title |-> <<"MUHUR KONTROL DETAYLARI">>, routine |-> "drawSealInfo"],
     [title |-> <<"FIZIKI KONTROL">>, routine |-> "drawPhysicalControl"],
     [title |-> <<"ZULA KONTROL">>, routine |-> "drawHiddenCompartmentControl"],
     [title |-> <<"KONTROL EDEN BILGILERI">>, routine |-> "drawInspectorInfo"] >>

----------------------------------------------------------------------------
(* PDFFormGenerator (src/lib/pdfForm.ts): the template filler.  A form     *)
(* field is named by the parts its name is put together from.              *)

FIZIKI_FIELDS ==
  << "fiziki_genel_saglamlik", "fiziki_zarar_kontrol", "fiziki_kapilar",
     "fiziki_muhur_kilit", "fiziki_7nokta" >>

ZULA_FIELDS ==
  << "zula_tamponlar", "zula_motor", "zula_far_arkasi", "zula_lastikler",
     "zula_tekerlek_ustu", "zula_yedek_lastik", "zula_yakit_depolari", "zula_egzoz",
     "zula_surucu_mili", "zula_cekici_dorse_ici", "zula_cekici_dorse_alti",
     "zula_yan_duvarlar", "zula_on_duvar", "zula_ic_dis_kapilar",
     "zula_surucu_depolari", "zula_hava_depolari", "zula_cati",
     "zula_sogutma_unitesi" >>

\* no field of the form has been set
NoFields == [name \in {} |-> Undef]

\* a PDFFormGenerator as `new` leaves it, before any call is made on it
NoPDFFormGenerator ==
  [at |-> "none", calls |-> 0, form |-> "null", pdfDoc |-> "null", unicodeFont |-> "null",
   fields |-> NoFields, images |-> <<>>, formData |-> EmptyForm, step |-> 0,
   result |-> "none"]

setField(g, fieldName, value) == [g EXCEPT !.fields = (fieldName :> value) @@ @]

\* the text and the font size safeSetTextField gives a field
adjusted(fieldName, text, fontSize) ==
  IF fieldName = <<"tasiyiciFirma">> /\ Len(text) > 20
  THEN [size |-> 600,
        text |-> IF Len(text) > 30 THEN SubSeq(text, 1, 27) \o S_ellipsis ELSE text]
  ELSE IF fieldName = <<"rejimHakSahibiAdi">> /\ Len(text) > 25
  THEN [size |-> 600,
        text |-> IF Len(text) > 35 THEN SubSeq(text, 1, 32) \o S_ellipsis ELSE text]
  ELSE IF Len(text) > 30
  THEN [size |-> 700,
        text |-> IF Len(text) > 40 THEN SubSeq(text, 1, 37) \o S_ellipsis ELSE text]
  ELSE [size |-> fontSize, text |-> text]

\* setText throws for a value that is no string; the catch only warns
safeSetTextField(g, fieldName, value, fontSize) ==
  IF g.form = "null" \/ ~Truthy(value) THEN g
  ELSE IF value.t # "string" THEN g
  ELSE Bind(adjusted(fieldName, value.s, fontSize), LAMBDA a :
         setField(g, fieldName, [kind |-> "text", text |-> a.text, size |-> a.size]))

safeSetCheckBox(g, fieldName, checked) ==
  IF g.form = "null" \/ checked.t \in {"undefined", "null"} THEN g
  ELSE setField(g, fieldName, [kind |-> "checkbox", checked |-> Truthy(checked)])

\* the image is drawn on the first page in a fixed box of 120 x 50; a
\* payload that is no PNG is skipped by the catch
embedSignatureImage(g, base64Data, fieldName) ==
  IF g.pdfDoc = "null" THEN g
  ELSE IF base64Data.t = "png"
  THEN [g EXCEPT !.images = Append(@, [field |-> fieldName, width |-> 12000,
                                        height |-> 5000])]
  ELSE g

TF(fieldName, value, fontSize) ==
  [fieldName |-> <<fieldName>>, value |-> value, fontSize |-> fontSize]

\* safeSetTextField for each of texts, in order
RECURSIVE setTextFields(_, _)
setTextFields(g, texts) ==
  IF texts = <<>> THEN g
  ELSE setTextFields(safeSetTextField(g, Head(texts).fieldName, Head(texts).value,
                                      Head(texts).fontSize),
                     Tail(texts))

\* safeSetCheckBox for each of boxes, in order
RECURSIVE setCheckBoxes(_, _)
setCheckBoxes(g, boxes) ==
  IF boxes = <<>> THEN g
  ELSE setCheckBoxes(safeSetCheckBox(g, Head(boxes).fieldName, Head(boxes).value),
                     Tail(boxes))

fillBasicInformation(g, fd) ==
  setTextFields(g,
    << TF("mrnNo", OrElse(fd.mrnNo, fd.mrn), 800),
       TF("rejimHakSahibiAdi", OrElse(fd.rejimHakSahibiAdi, fd.rejimHak), 800),
       TF("tasiyiciFirma", fd.tasiyiciFirma, 700),
       TF("aracTuru", fd.aracTuru, 800),
       TF("sevkDurumu", fd.sevkDurumu, 800),
       TF("muhurDurumu", fd.muhurDurumu, 800),
       TF("cekiciPlaka", OrElse(fd.cekiciPlaka, fd.cekici), 800),
       TF("dorsePlaka", OrElse(fd.dorsePlaka, fd.dorse), 800),
       TF("konteynerNo", fd.konteynerNo, 800),
       TF("kamyonPlaka", fd.kamyonPlaka, 800),
       TF("yuklemeYeri", OrElse(fd.loadingLocation, fd.yuklemeYeri), 800),
       TF("yuklemeTarihi", fd.yuklemeTarihi, 800),
       TF("yuklemeOncesiKantar", OrElse(fd.preLoadingWeight, fd.yuklemeOncesiKantar), 800),
       TF("izinliGondericiKantar",
          OrElse(fd.postLoadingWeight, fd.izinliGondericiKantar), 800) >>)

\* the k-th driver, k = 1 or 2: soforler[k - 1]
fillDriver(g, fd, k) ==
  Bind(At(fd.soforler, k), LAMBDA driver :
    IF ~Truthy(driver) THEN g
    ELSE Bind(setTextFields(g,
                << [fieldName |-> <<"sofor", ToString(k), "_adSoyad">>, fontSize |-> 800,
                    value |-> OrElse(Index(driver, "ad"), Index(driver, "adSoyad"))],
                   [fieldName |-> <<"sofor", ToString(k), "_telefon">>, fontSize |-> 800,
                    value |-> OrElse(Index(driver, "tel"), Index(driver, "telefon"))] >>),
              LAMBDA g1 :
           IF Truthy(Index(driver, "imza"))
           THEN embedSignatureImage(g1, Index(driver, "imza"), <<"sofor", ToString(k), "_imza">>)
           ELSE g1))

fillDriverInformation(g, fd) ==
  IF fd.soforler.t = "array" THEN fillDriver(fillDriver(g, fd, 1), fd, 2) ELSE g

\* the four checkboxes of a seal control object
sealCheckBoxes(g, prefix, control) ==
  IF ~Truthy(control) THEN g
  ELSE setCheckBoxes(g,
         << [fieldName |-> <<prefix, "_muhurEvrakUygun">>, value |-> Index(control, "evrakUyum")],
            [fieldName |-> <<prefix, "_muhurSaglamlik">>, value |-> Index(control, "saglamlik")],
            [fieldName |-> <<prefix, "_muhurGerginlik">>, value |-> Index(control, "gerginlik")],
            [fieldName |-> <<prefix, "_muhurKilit">>,
             value |-> Index(control, "kilitUygunluk")] >>)

\* cikisMuhurNo, cikisMuhurKirilmaNedeni, cikisYeniMuhurNo and
\* cikisMuhurKontrol are fields no record of the model has: undefined
fillSealInformation(g, fd) ==
  Bind(setTextFields(g, << TF("giris_muhurNo", fd.muhurNum, 800),
                           TF("giris_yeniMuhurNo", fd.yeniMuhurNum, 800) >>), LAMBDA g1 :
    Bind(sealCheckBoxes(g1, "giris", fd.muhurKontrol), LAMBDA g2 :
      Bind(setTextFields(g2, << TF("cikis_muhurNo", Undef, 800),
                                TF("cikis_muhurKirilmaNedeni", Undef, 800),
                                TF("cikis_yeniMuhurNo", OrElse(fd.yeniMuhurNum, Undef), 800) >>),
           LAMBDA g3 : sealCheckBoxes(g3, "cikis", OrElse(fd.yeniMuhurKontrol, Undef)))))

isValueUygun(value) ==
  \/ value = Bool(TRUE)
  \/ value = Str(S_uygun)
  \/ value = Str(S_on)
  \/ value.t = "string" /\ includes(toLowerCase(value.s), S_uygun)

\* what the callback of forEach decides for a control item: an object (an
\* array is one) by its uygun, anything else by isValueUygun
isUygun(controlItem) ==
  IF controlItem.t = "object" THEN Index(controlItem, "uygun") = Bool(TRUE)
  ELSE IF controlItem.t = "array" THEN FALSE
  ELSE isValueUygun(controlItem)

\* the callback of forEach for the rows from index on (index counts from 1):
\* the checkbox, then the explanation of the object or else of the array
RECURSIVE fillControlRows(_, _, _, _, _)
fillControlRows(g, FIELDS, controls, explanations, index) ==
  IF index > Len(controls.items) THEN g
  ELSE IF index > Len(FIELDS) THEN g
  ELSE Bind(controls.items[index], LAMBDA controlItem :
         Bind(safeSetCheckBox(g, <<FIELDS[index], "_uygun">>, Bool(isUygun(controlItem))),
              LAMBDA g1 :
           Bind(IF controlItem.t = "object"
                THEN OrElse(Index(controlItem, "aciklama"), Str(<<>>)) ELSE Str(<<>>),
                LAMBDA aciklama :
             fillControlRows(
               IF Truthy(aciklama)
               THEN safeSetTextField(g1, <<FIELDS[index], "_aciklama">>, aciklama, 700)
               ELSE IF Truthy(explanations) /\ Truthy(At(explanations, index))
               THEN safeSetTextField(g1, <<FIELDS[index], "_aciklama">>,
                                     At(explanations, index), 700)
               ELSE g1,
               FIELDS, controls, explanations, index + 1))))

fillPhysicalControl(g, fd) ==
  IF fd.fizikiKontrol.t = "array"
  THEN fillControlRows(g, FIZIKI_FIELDS, fd.fizikiKontrol, fd.fizikiAciklama, 1)
  ELSE g

fillHiddenCompartmentControl(g, fd) ==
  IF fd.zulaKontrol.t = "array"
  THEN fillControlRows(g, ZULA_FIELDS, fd.zulaKontrol, fd.zulaAciklama, 1)
  ELSE g

S_Uygun == <<"U", "y", "g", "u", "n">>
S_UygunDegil == <<"U", "y", "g", "u", "n", " ", "D", "e", "gbreve", "i", "l">>

fillInspectorInformation(g, fd, now) ==
  Bind(safeSetTextField(g, <<"kontrolEdenAd">>, fd.kontrolEdenAd, 800), LAMBDA g1 :
    Bind(safeSetTextField(g1, <<"tarihSaat">>,
                          IF Truthy(fd.timestamp) THEN fd.timestamp ELSE Str(now), 800),
         LAMBDA g2 :
      Bind(IF fd.genelSonuc \in {Str(S_uygun), Str(S_Uygun)}
           THEN safeSetCheckBox(g2, <<"genel_sonuc_uygun">>, Bool(TRUE))
           ELSE IF fd.genelSonuc \in {Str(S_uygunsuz), Str(S_UygunDegil)}
           THEN safeSetCheckBox(g2, <<"genel_sonuc_uygun_degil">>, Bool(TRUE))
           ELSE g2,
           LAMBDA g3 :
        IF Truthy(fd.kontrolEdenImza)
        THEN embedSignatureImage(g3, fd.kontrolEdenImza, <<"kontrol_eden_imza">>)
        ELSE g3)))

\* the awaited statements of fillForm, in order
FillSteps ==
  << "fillBasicInformation", "fillDriverInformation", "fillSealInformation",
     "fillPhysicalControl", "fillHiddenCompartmentControl", "fillInspectorInformation" >>

\* what the awaited statement at step k of fillForm leaves of g
filled(g, k, fd, now) ==
  CASE FillSteps[k] = "fillBasicInformation" -> fillBasicInformation(g, fd)
    [] FillSteps[k] = "fillDriverInformation" -> fillDriverInformation(g, fd)
    [] FillSteps[k] = "fillSealInformation" -> fillSealInformation(g, fd)
    [] FillSteps[k] = "fillPhysicalControl" -> fillPhysicalControl(g, fd)
    [] FillSteps[k] = "fillHiddenCompartmentControl" -> fillHiddenCompartmentControl(g, fd)
    [] FillSteps[k] = "fillInspectorInformation" -> fillInspectorInformation(g, fd, now)

\* the records handed to fillForm
PdfFormInputs ==
  TableForms
  \cup {fd \in StructForms : fd.muhurDurumu = Str(S_Evet) /\ fd.muhurKontrol = SomeSeal}
  \cup {[BaseForm EXCEPT !.tasiyiciFirma = Str(Repeat("M", n)), !.timestamp = ts,
                         !.genelSonuc = Str(gs)] :
          n \in {20, 21, 30, 31}, ts \in {Undef, Str(S_date)},
          gs \in {S_uygun, S_UygunDegil, S_off}}

----------------------------------------------------------------------------
(* migrateBase64ToStorage (src/lib/migrateBase64ToStorage.ts).  A row of   *)
(* the forms table is its form_data; its id is its position in the table.  *)
(* A data: URL is a Png with its prefix; the sizes of the payloads, and     *)
(* with them stats.bytesFreed, are left out.                                *)

\* a storage path: forms/<formId>/photos/<uuid>.webp, forms/<formId>/signature.png
Path(kind, formId, uuid) == [t |-> "path", kind |-> kind, formId |-> formId, uuid |-> uuid]

isBase64(str) == str.t = "png" /\ str.prefix

InspectorSignature == Png(TRUE, 400, 50)
DriverSignature == Png(TRUE, 50, 200)
Photo == Png(TRUE, 100, 100)

\* the form_data of the rows the application has stored
StoredForms ==
  { [fotoListesi |-> photos, kontrolEdenImza |-> imza, signature |-> Undef,
     soforler |-> drivers] :
      photos \in {Undef, Arr(<<Photo>>), Arr(<<Path("photo", 0, 0), Photo>>)},
      imza \in {Undef, InspectorSignature},
      drivers \in {Undef, Arr(<<Driver(Str(S_name), Undef, Undef)>>),
                   Arr(<<Driver(Str(S_name), Undef, DriverSignature)>>)} }
  \cup
  { [fotoListesi |-> Undef, kontrolEdenImza |-> Path("signature", 0, 0),
     signature |-> Png(TRUE, 70, 18), soforler |-> Undef] }

NoRows == <<>>

NoStats == [formsProcessed |-> 0, photosUploaded |-> 0, signaturesUploaded |-> 0,
            errors |-> 0]

NoImages == [photoPaths |-> <<>>, signaturePath |-> Null, uploads |-> <<>>]

\* no migrateBase64ToStorage call is under way
NoMigration ==
  [at |-> "idle", calls |-> 0, dryRun |-> TRUE, limit |-> 0, forms |-> <<>>, index |-> 0,
   images |-> NoImages, uuids |-> 0, stats |-> NoStats]

\* the loop over fotoListesi from photo i on: a base64 photo is uploaded
\* under a new uuid, and kept as it is when the upload fails
RECURSIVE migratePhotos(_, _, _, _, _)
migratePhotos(formId, photos, i, photoOk, uuid) ==
  IF i > Len(photos) THEN [photoPaths |-> <<>>, uploads |-> <<>>]
  ELSE Bind(migratePhotos(formId, photos, i + 1, photoOk, uuid + 1), LAMBDA rest :
         IF isBase64(photos[i]) /\ i \in photoOk
         THEN Bind(Path("photo", formId, uuid), LAMBDA path :
                [photoPaths |-> <<path>> \o rest.photoPaths,
                 uploads |-> <<[path |-> path, content |-> photos[i]]>> \o rest.uploads])
         ELSE [photoPaths |-> <<photos[i]>> \o rest.photoPaths, uploads |-> rest.uploads])

signatureFields(form_data) ==
  << <<"kontrolEdenImza">>, <<"signature">> >>
  \o (IF form_data.soforler.t = "array"
      THEN [i \in 1..Len(form_data.soforler.items) |-> <<"soforler", i, "imza">>]
      ELSE <<>>)

\* the value the inner loop of migrateFormImages arrives at for a field
valueOf(form_data, field) ==
  IF Len(field) = 1 THEN form_data[field[1]]
  ELSE Bind(At(form_data.soforler, field[2]), LAMBDA driver :
         IF ~Truthy(driver) THEN driver ELSE Index(driver, field[3]))

\* the loop over the signature fields from field k on: the first base64
\* signature whose upload succeeds ends the loop
RECURSIVE migrateSignature(_, _, _, _, _)
migrateSignature(formId, form_data, fields, k, signatureOk) ==
  IF k > Len(fields) THEN [signaturePath |-> Null, uploads |-> <<>>]
  ELSE Bind(valueOf(form_data, fields[k]), LAMBDA value :
         IF Truthy(value) /\ isBase64(value) /\ k \in signatureOk
         THEN Bind(Path("signature", formId, 0), LAMBDA path :
                [signaturePath |-> path,
                 uploads |-> <<[path |-> path, content |-> value]>>])
         ELSE migrateSignature(formId, form_data, fields, k + 1, signatureOk))

\* photoOk, signatureOk: the photos and the signature fields whose upload
\* succeeds if it is tried
migrateFormImages(formId, form_data, photoOk, signatureOk, uuid) ==
  Bind(IF form_data.fotoListesi.t = "array"
       THEN migratePhotos(formId, form_data.fotoListesi.items, 1, photoOk, uuid)
       ELSE [photoPaths |-> <<>>, uploads |-> <<>>], LAMBDA p :
    Bind(migrateSignature(formId, form_data, signatureFields(form_data), 1, signatureOk),
         LAMBDA s :
      [photoPaths |-> p.photoPaths, signaturePath |-> s.signaturePath,
       uploads |-> p.uploads \o s.uploads]))

\* storage.upload of each of uploads, in order; an object at the same path
\* is replaced
RECURSIVE upload(_, _)
upload(objects, uploads) ==
  IF uploads = <<>> THEN objects
  ELSE upload({o \in objects : o.path # Head(uploads).path} \cup {Head(uploads)},
              Tail(uploads))

\* the positions at which seq holds a base64 payload
Base64At(seq) == {i \in 1..Len(seq) : Truthy(seq[i]) /\ isBase64(seq[i])}

----------------------------------------------------------------------------
(* The generator: its calls *)

\* a DynamicPDFGenerator as `new` leaves it
InitGenerator ==
  /\ pdfDoc = "null"
  /\ pageCount = 0
  /\ unicodeFont = "null"
  /\ currentY = 0
  /\ pageHeight = 0
  /\ pageWidth = 0
  /\ formData = EmptyForm
  /\ pc = Idle
  /\ trace = <<>>
  /\ result = NoResult

\* two invocations of generateDynamicPDF, the second made while the first
\* is still awaiting
InvocationIds == {1, 2}

\* no generateDynamicPDF invocation has been made
NoInvocations == [k \in InvocationIds |-> [pc |-> [at |-> "absent", sec |-> 0]]]

\* no generatePdfFromHtml call has been made
NoHtmlCall ==
  [id |-> 0, pc |-> "idle", formData |-> EmptyForm, rendered |-> "none",
   result |-> "none"]

Init ==
  /\ InitGenerator
  /\ invocations = NoInvocations
  /\ documentBody = {}
  /\ roots = {}
  /\ htmlCall = NoHtmlCall
  /\ pdfForm = NoPDFFormGenerator
  /\ database = NoRows
  /\ storage = {}
  /\ migration = NoMigration

\* loadUnicodeFont: the fetched font is embedded, or the catch embeds Helvetica
loadUnicodeFont(fontLoads) == IF fontLoads THEN "Roboto" ELSE "Helvetica"

initialize ==
  /\ pc = Idle
  /\ pdfDoc = "null"
  /\ \E fontLoads \in BOOLEAN :
       /\ pdfDoc' = "doc"
       /\ pageCount' = 0
       /\ unicodeFont' = loadUnicodeFont(fontLoads)
  /\ UNCHANGED <<currentY, pageHeight, pageWidth, formData, pc, trace, result>>
  /\ UNCHANGED others

\* variant: a catch that swallows the exception
afterStepSwallowing(ctx, next) == [pc |-> next, result |-> result]

\* where control goes after a statement of addComprehensivePage, and what
\* generatePDF has settled to: on an exception its catch rethrows
afterStep(ctx, next) ==
  IF ctx.err = "none"
  THEN [pc |-> next, result |-> result]
  ELSE [pc |-> Idle,
        result |-> [status |-> "rejected", error |-> ctx.err,
                    at |-> IF pc.at = "body" THEN Sections[pc.sec].routine ELSE pc.at,
                    pages |-> 0]]

Commit(ctx0, next) ==
  \E ctx \in {ctx0} : \E after \in {afterStep(ctx, next)} :
    /\ currentY' = ctx.y
    /\ trace' = ctx.trace
    /\ pc' = after.pc
    /\ result' = after.result
    /\ UNCHANGED <<pdfDoc, pageCount, unicodeFont, pageHeight, pageWidth, formData>>
    /\ UNCHANGED others

\* the guard of generatePDF fails
generatePDFUninitialized ==
  /\ pc = Idle
  /\ pdfDoc = "null" \/ unicodeFont = "null"
  /\ result' = [status |-> "rejected", error |-> "not initialized",
                at |-> "generatePDF", pages |-> 0]
  /\ UNCHANGED <<pdfDoc, pageCount, unicodeFont, currentY, pageHeight, pageWidth,
                 formData, pc, trace>>
  /\ UNCHANGED others

\* generatePDF up to the first await of addComprehensivePage
generatePDF ==
  /\ pc = Idle
  /\ pdfDoc # "null" /\ unicodeFont # "null"
  /\ pageCount < MaxCalls
  /\ \E fd \in Forms :
       /\ formData' = fd
       /\ pageCount' = pageCount + 1
       /\ pageWidth' = A4Width
       /\ pageHeight' = A4Height
       /\ currentY' = A4Height - margin
       /\ trace' = << [op |-> "cursor", by |-> "addComprehensivePage",
                       y |-> A4Height - margin] >>
       /\ pc' = [at |-> "drawDocumentHeader", sec |-> 0]
       /\ result' = [status |-> "pending", error |-> "none", at |-> "none", pages |-> 0]
  /\ UNCHANGED <<pdfDoc, unicodeFont>>
  /\ UNCHANGED others

Here == Ctx(currentY, trace)

\* variant: the seal section is left out
NextSectionSkipping(sec) ==
  IF sec = 3 THEN [at |-> "header", sec |-> 5]
  ELSE IF sec < Len(Sections) THEN [at |-> "header", sec |-> sec + 1]
  ELSE [at |-> "save", sec |-> 0]

NextSection(sec) ==
  IF sec < Len(Sections) THEN [at |-> "header", sec |-> sec + 1]
  ELSE [at |-> "save", sec |-> 0]

AwaitDrawDocumentHeader ==
  /\ pc.at = "drawDocumentHeader"
  /\ Commit(drawDocumentHeader(Here), [at |-> "drawTitle", sec |-> 0])

AwaitDrawTitle ==
  /\ pc.at = "drawTitle"
  /\ Commit(drawTitle(Here), [at |-> "header", sec |-> 1])

AwaitDrawSectionHeader ==
  /\ pc.at = "header"
  /\ Commit(drawSectionHeader(Here, Sections[pc.sec].title), [at |-> "body", sec |-> pc.sec])

AtBody(routine) == pc.at = "body" /\ Sections[pc.sec].routine = routine

AwaitDrawBasicInfo ==
  /\ AtBody("drawBasicInfo")
  /\ Commit(drawBasicInfo(Here, formData), NextSection(pc.sec))

AwaitDrawVehicleInfo ==
  /\ AtBody("drawVehicleInfo")
  /\ Commit(drawVehicleInfo(Here, formData), NextSection(pc.sec))

AwaitDrawDriverInfo ==
  /\ AtBody("drawDriverInfo")
  /\ Commit(drawDriverInfo(Here, formData), NextSection(pc.sec))

AwaitDrawSealInfo ==
  /\ AtBody("drawSealInfo")
  /\ Commit(drawSealInfo(Here, formData), NextSection(pc.sec))

AwaitDrawPhysicalControl ==
  /\ AtBody("drawPhysicalControl")
  /\ Commit(drawPhysicalControl(Here, formData), NextSection(pc.sec))

AwaitDrawHiddenCompartmentControl ==
  /\ AtBody("drawHiddenCompartmentControl")
  /\ Commit(drawHiddenCompartmentControl(Here, formData), NextSection(pc.sec))

AwaitDrawInspectorInfo ==
  /\ AtBody("drawInspectorInfo")
  /\ \E now \in ClockStrings :
       Commit(drawInspectorInfo(Here, formData, now), NextSection(pc.sec))

\* pdfDoc.save() and the return of generatePDF
AwaitSave ==
  /\ pc.at = "save"
  /\ pc' = Idle
  /\ result' = [status |-> "resolved", error |-> "none", at |-> "none",
                pages |-> pageCount]
  /\ UNCHANGED <<pdfDoc, pageCount, unicodeFont, currentY, pageHeight, pageWidth,
                 formData, trace>>
  /\ UNCHANGED others

Next ==
  \/ initialize
  \/ generatePDFUninitialized
  \/ generatePDF
  \/ AwaitDrawDocumentHeader
  \/ AwaitDrawTitle
  \/ AwaitDrawSectionHeader
  \/ AwaitDrawBasicInfo
  \/ AwaitDrawVehicleInfo
  \/ AwaitDrawDriverInfo
  \/ AwaitDrawSealInfo
  \/ AwaitDrawPhysicalControl
  \/ AwaitDrawHiddenCompartmentControl
  \/ AwaitDrawInspectorInfo
  \/ AwaitSave

Spec == Init /\ [][Next]_vars

----------------------------------------------------------------------------
(* generateDynamicPDF: every invocation makes a DynamicPDFGenerator of its  *)
(* own.  invocations[k] holds the fields of the generator of invocation k  *)
(* and where the invocation stands.                                        *)

\* the statement of addComprehensivePage awaited at position p, run on ctx
awaited(p, ctx, fd, now) ==
  CASE p.at = "drawDocumentHeader" -> drawDocumentHeader(ctx)
    [] p.at = "drawTitle" -> drawTitle(ctx)
    [] p.at = "header" -> drawSectionHeader(ctx, Sections[p.sec].title)
    [] p.at = "body" /\ Sections[p.sec].routine = "drawBasicInfo" -> drawBasicInfo(ctx, fd)
    [] p.at = "body" /\ Sections[p.sec].routine = "drawVehicleInfo" -> drawVehicleInfo(ctx, fd)
    [] p.at = "body" /\ Sections[p.sec].routine = "drawDriverInfo" -> drawDriverInfo(ctx, fd)
    [] p.at = "body" /\ Sections[p.sec].routine = "drawSealInfo" -> drawSealInfo(ctx, fd)
    [] p.at = "body" /\ Sections[p.sec].routine = "drawPhysicalControl" ->
         drawPhysicalControl(ctx, fd)
    [] p.at = "body" /\ Sections[p.sec].routine = "drawHiddenCompartmentControl" ->
         drawHiddenCompartmentControl(ctx, fd)
    [] p.at = "body" /\ Sections[p.sec].routine = "drawInspectorInfo" ->
         drawInspectorInfo(ctx, fd, now)
    [] OTHER -> ctx

\* the position after p in addComprehensivePage
following(p) ==
  CASE p.at = "drawDocumentHeader" -> [at |-> "drawTitle", sec |-> 0]
    [] p.at = "drawTitle" -> [at |-> "header", sec |-> 1]
    [] p.at = "header" -> [at |-> "body", sec |-> p.sec]
    [] OTHER -> NextSection(p.sec)

Done == [at |-> "done", sec |-> 0]

\* the records generateDynamicPDF is invoked with
InvocationForms ==
  { BaseForm,
    [BaseForm EXCEPT !.timestamp = Undef],
    [BaseForm EXCEPT !.timestamp = Str(<<>>)],
    [BaseForm EXCEPT !.tasiyiciFirma = Str(Repeat("M", MaxWide))],
    [BaseForm EXCEPT !.muhurDurumu = Str(S_Evet), !.kontrolEdenImza = NotPng,
                     !.soforler = Arr(<<DriverKinds[2], DriverKinds[3]>>)],
    [BaseForm EXCEPT !.soforler = Arr(<<DriverKinds[1], DriverKinds[4]>>)] }

\* const generator = new DynamicPDFGenerator()
NewGenerator(fd) ==
  [pc |-> [at |-> "initialize", sec |-> 0], pdfDoc |-> "null", pageCount |-> 0,
   unicodeFont |-> "null", currentY |-> 0, pageHeight |-> 0, pageWidth |-> 0,
   formData |-> fd, trace |-> <<>>, result |-> NoResult, clock |-> S_date]

\* variant: the cursor is one module-level variable, that of the first
\* invocation that has a generator
sharedCursor(k) ==
  invocations[CHOOSE j \in InvocationIds :
                /\ invocations[j].pc.at # "absent"
                /\ \A i \in InvocationIds : invocations[i].pc.at # "absent" => j <= i].currentY

\* this.currentY, as the generator of invocation k reads it
cursorOf(k) == invocations[k].currentY

\* `this` of the generator of invocation k
thisOf(k) == [invocations[k] EXCEPT !.currentY = cursorOf(k)]

\* one awaited statement of addComprehensivePage on generator g
awaitStatement(g, now) ==
  Bind(awaited(g.pc, CtxOf(g.currentY, g.trace, g.unicodeFont, g.pageWidth),
               g.formData, now), LAMBDA c :
    IF c.err = "none"
    THEN [g EXCEPT !.currentY = c.y, !.trace = c.trace, !.pc = following(g.pc),
                   !.clock = IF g.pc.at = "body" /\ g.pc.sec = Len(Sections)
                             THEN now ELSE @]
    ELSE [g EXCEPT !.currentY = c.y, !.trace = c.trace, !.pc = Done,
                   !.result = [status |-> "rejected", error |-> c.err,
                               at |-> g.pc.at, pages |-> 0]])

\* generator g taken one step further
advance(g, fontLoads, now) ==
  CASE g.pc.at = "initialize" ->
         [g EXCEPT !.pdfDoc = "doc", !.pageCount = 0,
                   !.unicodeFont = loadUnicodeFont(fontLoads),
                   !.pc = [at |-> "generatePDF", sec |-> 0]]
    [] g.pc.at = "generatePDF" ->
         [g EXCEPT !.pageCount = @ + 1, !.pageWidth = A4Width, !.pageHeight = A4Height,
                   !.currentY = A4Height - margin,
                   !.trace = << [op |-> "cursor", by |-> "addComprehensivePage",
                                 y |-> A4Height - margin] >>,
                   !.pc = [at |-> "drawDocumentHeader", sec |-> 0],
                   !.result = [status |-> "pending", error |-> "none", at |-> "none",
                               pages |-> 0]]
    [] g.pc.at = "save" ->
         [g EXCEPT !.pc = Done,
                   !.result = [status |-> "resolved", error |-> "none", at |-> "none",
                               pages |-> g.pageCount]]
    [] g.pc.at \in {"absent", "done"} -> g
    [] OTHER -> awaitStatement(g, now)

generateDynamicPDF(k) ==
  /\ invocations[k].pc.at = "absent"
  /\ \E fd \in InvocationForms :
       invocations' = [invocations EXCEPT ![k] = NewGenerator(fd)]
  /\ UNCHANGED <<generator, htmlVars, pdfForm, backend>>

InvocationInitialize(k) ==
  /\ invocations[k].pc.at = "initialize"
  /\ \E fontLoads \in BOOLEAN :
       invocations' = [invocations EXCEPT ![k] = advance(thisOf(k), fontLoads, S_date)]
  /\ UNCHANGED <<generator, htmlVars, pdfForm, backend>>

InvocationGeneratePDF(k) ==
  /\ invocations[k].pc.at = "generatePDF"
  /\ invocations' = [invocations EXCEPT ![k] = advance(thisOf(k), TRUE, S_date)]
  /\ UNCHANGED <<generator, htmlVars, pdfForm, backend>>

InvocationAwait(k) ==
  /\ invocations[k].pc.at \in {"drawDocumentHeader", "drawTitle", "header", "body"}
  /\ \E now \in ClockStrings :
       invocations' = [invocations EXCEPT ![k] = advance(thisOf(k), TRUE, now)]
  /\ UNCHANGED <<generator, htmlVars, pdfForm, backend>>

InvocationSave(k) ==
  /\ invocations[k].pc.at = "save"
  /\ invocations' = [invocations EXCEPT ![k] = advance(thisOf(k), TRUE, S_date)]
  /\ UNCHANGED <<generator, htmlVars, pdfForm, backend>>

NextInvocations ==
  \E k \in InvocationIds :
    \/ generateDynamicPDF(k)
    \/ InvocationInitialize(k)
    \/ InvocationGeneratePDF(k)
    \/ InvocationAwait(k)
    \/ InvocationSave(k)

SpecInvocations == Init /\ [][NextInvocations]_vars

\* generator g run to its end with nothing else running: the font load
\* ends as it did for g, the clock reads now
RECURSIVE ranAlone(_, _, _)
ranAlone(g, fontLoads, now) ==
  IF g.pc.at = "done" THEN g
  ELSE Bind(advance(g, fontLoads, now), LAMBDA h : ranAlone(h, fontLoads, now))

----------------------------------------------------------------------------
(* PdfTemplate and generatePdfFromHtml *)

\* get(path) from the value the first key of the path names: the default ''
\* as soon as a step is null or undefined, and for a null or undefined end
RECURSIVE get(_, _)
get(current, path) ==
  IF current.t \in {"undefined", "null"} THEN Str(<<>>)
  ELSE IF path = <<>> THEN current
  ELSE get(Index(current, Head(path)), Tail(path))

\* !value
Not(v) == Bool(~Truthy(v))

\* the mark a Checkbox renders
Checkbox(checked) ==
  IF checked = Bool(TRUE) \/ checked = Str(S_uygun) THEN "checked" ELSE ""

\* a row of the physical or the concealment table
ControlRow(controls, explanations, index) ==
  [uygun |-> Checkbox(get(controls, <<index, "uygun">>)),
   uygunDegil |-> Checkbox(Not(get(controls, <<index, "uygun">>))),
   aciklama |-> OrElse(get(explanations, <<index>>), Str(<<>>))]

SealFields == <<"evrakUyum", "saglamlik", "gerginlik", "kilitUygunluk">>

\* MEVCUT MUHUR KONTROLU: the rows only when muhurDurumu === 'Evet'
ExistingSealTable(fd) ==
  IF get(fd.muhurDurumu, <<>>) = Str(S_Evet)
  THEN [rows |-> TRUE, muhurNum |-> get(fd.muhurNum, <<>>),
        checks |-> [i \in 1..4 |->
          [uygun |-> Checkbox(get(fd.muhurKontrol, <<SealFields[i]>>)),
           uygunDegil |->
             Checkbox(Bool(get(fd.muhurKontrol, <<SealFields[i]>>) = Bool(FALSE)))]]]
  ELSE [rows |-> FALSE, muhurNum |-> Str(<<>>), checks |-> <<>>]

\* YENI MUHUR KONTROLU
NewSealTable(fd) ==
  [muhurNum |-> get(fd.yeniMuhurNum, <<>>),
   checks |-> [i \in 1..4 |->
     [uygun |-> Checkbox(get(fd.yeniMuhurKontrol, <<SealFields[i]>>)),
      uygunDegil |-> Checkbox(Not(get(fd.yeniMuhurKontrol, <<SealFields[i]>>)))]]]

\* what PdfTemplate renders of the control tables and the seal tables
PdfTemplate(fd) ==
  [fiziki |-> [i \in 1..Len(fizikiLabels) |->
                 ControlRow(fd.fizikiKontrol, fd.fizikiAciklama, i)],
   zula |-> [i \in 1..Len(zulaLabels) |->
               ControlRow(fd.zulaKontrol, fd.zulaAciklama, i)],
   mevcutMuhur |-> ExistingSealTable(fd),
   yeniMuhur |-> NewSealTable(fd)]

\* records as Step3Checklist stores them, rows answered and not
HtmlForms ==
  { [BaseForm EXCEPT !.fizikiKontrol = rows, !.fizikiAciklama = expl,
                     !.muhurDurumu = md, !.muhurKontrol = mk, !.yeniMuhurKontrol = mk] :
      rows \in {Undef, Arr(<< Row(Bool(TRUE), Str(<<"o", "k">>)), Row(Bool(FALSE), Undef),
                               Row(Null, Undef), Row(Bool(TRUE), Undef) >>)},
      expl \in {Undef, Arr(<<Str(<<"o", "k">>), Str(<<"n", "o">>)>>)},
      md \in {Undef, Str(S_Evet), Str(S_Hayir)},
      mk \in {Undef, SomeSeal} }

\* lines 11-20: the container is appended to document.body, the root is
\* created and rendered, and the call waits for its timer
generatePdfFromHtml ==
  /\ htmlCall.pc = "idle"
  /\ htmlCall.id < MaxHtmlCalls
  /\ \E fd \in HtmlForms :
       htmlCall' = [id |-> htmlCall.id + 1, pc |-> "setTimeout", formData |-> fd,
                    rendered |-> PdfTemplate(fd), result |-> "none"]
  /\ documentBody' = documentBody \cup {htmlCall.id + 1}
  /\ roots' = roots \cup {htmlCall.id + 1}
  /\ UNCHANGED <<generator, invocations, pdfForm, backend>>

\* the timer fires and html2canvas is called
HtmlTimerFires ==
  /\ htmlCall.pc = "setTimeout"
  /\ htmlCall' = [htmlCall EXCEPT !.pc = "html2canvas"]
  /\ UNCHANGED <<generator, invocations, pdfForm, backend, documentBody, roots>>

\* html2canvas resolves: lines 29-61 run, the cleanup first; building the
\* PDF from the canvas succeeds or throws
Html2canvasResolves ==
  /\ htmlCall.pc = "html2canvas"
  /\ roots' = roots \ {htmlCall.id}
  /\ documentBody' = documentBody \ {htmlCall.id}
  /\ \E outcome \in {"resolved", "rejected"} :
       htmlCall' = [htmlCall EXCEPT !.pc = "idle", !.result = outcome]
  /\ UNCHANGED <<generator, invocations, pdfForm, backend>>

\* html2canvas rejects: the await throws and the function is left
Html2canvasRejects ==
  /\ htmlCall.pc = "html2canvas"
  /\ htmlCall' = [htmlCall EXCEPT !.pc = "idle", !.result = "rejected"]
  /\ UNCHANGED <<generator, invocations, pdfForm, backend, documentBody, roots>>

NextHtml ==
  \/ generatePdfFromHtml
  \/ HtmlTimerFires
  \/ Html2canvasResolves
  \/ Html2canvasRejects

SpecHtml == Init /\ [][NextHtml]_vars

----------------------------------------------------------------------------
----------------------------------------------------------------------------
(* PDFFormGenerator: the calls.  generatePDFPreview and generateAndSavePDF  *)
(* make a new generator for every document.                                *)

newPDFFormGenerator ==
  /\ pdfForm.at \in {"none", "failed", "thrown", "filled"}
  /\ pdfForm.calls < MaxCalls
  /\ pdfForm' = [NoPDFFormGenerator EXCEPT !.at = "constructed",
                                           !.calls = pdfForm.calls + 1]
  /\ UNCHANGED <<generator, invocations, htmlVars, backend>>

\* loadTemplate resolves: the catch of loadUnicodeFont leaves the font null
loadTemplateResolves ==
  /\ pdfForm.at = "constructed"
  /\ \E fontLoads \in BOOLEAN :
       pdfForm' = [pdfForm EXCEPT !.at = "loaded", !.pdfDoc = "doc", !.form = "form",
                                  !.unicodeFont = IF fontLoads THEN "Roboto" ELSE "null"]
  /\ UNCHANGED <<generator, invocations, htmlVars, backend>>

\* the template cannot be fetched or parsed: loadTemplate rethrows
loadTemplateRejects ==
  /\ pdfForm.at = "constructed"
  /\ pdfForm' = [pdfForm EXCEPT !.at = "failed", !.result = "template"]
  /\ UNCHANGED <<generator, invocations, htmlVars, backend>>

\* variant: fillForm without its guard
fillFormUnguarded ==
  /\ pdfForm.at \in {"constructed", "failed"}
  /\ \E fd \in PdfFormInputs :
       pdfForm' = [fillBasicInformation([pdfForm EXCEPT !.form = "form"], fd)
                     EXCEPT !.at = "thrown", !.formData = fd, !.result = "not loaded"]
  /\ UNCHANGED <<generator, invocations, htmlVars, backend>>

\* fillForm on a generator without template: the guard throws
fillFormUnloaded ==
  /\ pdfForm.at \in {"constructed", "failed"}
  /\ pdfForm.form = "null" \/ pdfForm.pdfDoc = "null"
  /\ \E fd \in PdfFormInputs :
       pdfForm' = [pdfForm EXCEPT !.at = "thrown", !.formData = fd,
                                  !.result = "not loaded"]
  /\ UNCHANGED <<generator, invocations, htmlVars, backend>>

\* fillForm up to its first await
fillForm ==
  /\ pdfForm.at = "loaded"
  /\ pdfForm.form # "null" /\ pdfForm.pdfDoc # "null"
  /\ \E fd \in PdfFormInputs :
       pdfForm' = [pdfForm EXCEPT !.at = "filling", !.step = 1, !.formData = fd]
  /\ UNCHANGED <<generator, invocations, htmlVars, backend>>

\* an awaited statement of fillForm returns; after the last, fillForm does
AwaitFill ==
  /\ pdfForm.at = "filling"
  /\ \E now \in ClockStrings :
       \E g \in {filled(pdfForm, pdfForm.step, pdfForm.formData, now)} :
         pdfForm' = IF pdfForm.step < Len(FillSteps)
                    THEN [g EXCEPT !.step = pdfForm.step + 1]
                    ELSE [g EXCEPT !.at = "filled", !.step = 0, !.result = "resolved"]
  /\ UNCHANGED <<generator, invocations, htmlVars, backend>>

\* the two generators side by side; of the DynamicPDFGenerator its
\* construction and the guard of generatePDF
NextPdfForm ==
  \/ initialize
  \/ generatePDFUninitialized
  \/ newPDFFormGenerator
  \/ loadTemplateResolves
  \/ loadTemplateRejects
  \/ fillFormUnloaded
  \/ fillForm
  \/ AwaitFill

SpecPdfForm == Init /\ [][NextPdfForm]_vars

----------------------------------------------------------------------------
(* migrateBase64ToStorage: the calls *)

\* FormStorageManager.submitForm of a form without id: a row is inserted
submitForm ==
  /\ migration.at = "idle"
  /\ Len(database) < MaxForms
  /\ \E fd \in StoredForms : database' = Append(database, fd)
  /\ UNCHANGED <<generator, invocations, htmlVars, pdfForm, storage, migration>>

\* migrateBase64ToStorage(dryRun, limit) up to the select
migrateBase64ToStorage ==
  /\ migration.at = "idle"
  /\ migration.calls < MaxMigrations
  /\ \E dryRun \in BOOLEAN, limit \in 1..MaxForms :
       migration' = [NoMigration EXCEPT !.at = "select", !.calls = migration.calls + 1,
                                        !.dryRun = dryRun, !.limit = limit,
                                        !.uuids = migration.uuids]
  /\ UNCHANGED <<generator, invocations, htmlVars, pdfForm, database, storage>>

\* where the loop over the forms goes after form index
nextForm(m) ==
  IF m.index < Len(m.forms) THEN [m EXCEPT !.at = "images", !.index = m.index + 1]
  ELSE [m EXCEPT !.at = "idle"]

\* the select resolves with the first limit rows; without rows the call
\* returns
SelectResolves ==
  /\ migration.at = "select"
  /\ migration' = nextForm([migration EXCEPT
                              !.forms = SubSeq(database, 1, Min(migration.limit, Len(database)))])
  /\ UNCHANGED <<generator, invocations, htmlVars, pdfForm, database, storage>>

\* the select fails: the outer catch records the error and the call returns
SelectFails ==
  /\ migration.at = "select"
  /\ migration' = [migration EXCEPT !.at = "idle", !.stats.errors = @ + 1]
  /\ UNCHANGED <<generator, invocations, htmlVars, pdfForm, database, storage>>

\* migrateFormImages of the form at index returns, and the statistics are
\* updated; the update follows if this is no dry run and there is a photo
\* list or a signature path
AwaitMigrateFormImages ==
  /\ migration.at = "images"
  /\ \E form_data \in {migration.forms[migration.index]} :
     \E photoOk \in SUBSET (IF form_data.fotoListesi.t = "array"
                            THEN Base64At(form_data.fotoListesi.items) ELSE {}) :
     \E signatureOk \in SUBSET Base64At([k \in 1..Len(signatureFields(form_data)) |->
                                           valueOf(form_data, signatureFields(form_data)[k])]) :
     \E images \in {migrateFormImages(migration.index, form_data, photoOk, signatureOk,
                                      migration.uuids)} :
     \E m \in {[migration EXCEPT
                  !.images = images,
                  !.uuids = @ + Len(images.uploads),
                  !.stats.formsProcessed = @ + 1,
                  !.stats.photosUploaded =
                     @ + Len(images.photoPaths) - Cardinality(Base64At(images.photoPaths)),
                  !.stats.signaturesUploaded =
                     @ + (IF images.signaturePath # Null THEN 1 ELSE 0)]} :
       /\ storage' = upload(storage, images.uploads)
       /\ migration' = IF /\ ~migration.dryRun
                          /\ Len(images.photoPaths) > 0 \/ images.signaturePath # Null
                       THEN [m EXCEPT !.at = "update"]
                       ELSE nextForm(m)
  /\ UNCHANGED <<generator, invocations, htmlVars, pdfForm, database>>

\* the form_data the update writes
updatedFormData(form_data, images) ==
  [form_data EXCEPT !.fotoListesi = Arr(images.photoPaths),
                   !.kontrolEdenImza = OrElse(images.signaturePath, form_data.kontrolEdenImza)]

UpdateResolves ==
  /\ migration.at = "update"
  /\ database' = [database EXCEPT ![migration.index] =
                    updatedFormData(migration.forms[migration.index], migration.images)]
  /\ migration' = nextForm(migration)
  /\ UNCHANGED <<generator, invocations, htmlVars, pdfForm, storage>>

\* the update fails: the catch of the loop records the error
UpdateFails ==
  /\ migration.at = "update"
  /\ migration' = nextForm([migration EXCEPT !.stats.errors = @ + 1])
  /\ UNCHANGED <<generator, invocations, htmlVars, pdfForm, database, storage>>

NextMigration ==
  \/ submitForm
  \/ migrateBase64ToStorage
  \/ SelectResolves
  \/ SelectFails
  \/ AwaitMigrateFormImages
  \/ UpdateResolves
  \/ UpdateFails

SpecMigration == Init /\ [][NextMigration]_vars

(* Reading the trace *)

\* the last cursor entry of tr at or before i
RECURSIVE LastCursor(_, _)
LastCursor(tr, i) ==
  IF tr[i].op = "cursor" THEN i ELSE LastCursor(tr, i - 1)

\* the value of the cursor when entry i of tr was made
PrevY(tr, i) == tr[LastCursor(tr, i - 1)].y

\* cursor assignments made outside the section routines
OutsideSections == {"addComprehensivePage", "drawDocumentHeader", "drawSectionHeader"}

\* assignments that only ever move the cursor by a fixed step
Primitives ==
  {"addComprehensivePage", "drawDocumentHeader", "drawSectionHeader",
   "drawLabelValue", "drawControlTable"}

\* the last cursor entry of tr at or before i made outside the section routines
RECURSIVE LastOutside(_, _)
LastOutside(tr, i) ==
  IF tr[i].op = "cursor" /\ tr[i].by \in OutsideSections THEN i
  ELSE LastOutside(tr, i - 1)

\* the value of the cursor when the routine that made entry i was entered
EntryY(tr, i) == tr[LastOutside(tr, i - 1)].y

\* the entries of tr that are value cells of drawLabelValue
ValueCells(tr) ==
  {i \in 2..(Len(tr) - 1) : tr[i + 1].op = "cursor" /\ tr[i + 1].by = "drawLabelValue"}

IsStatusCell(e) == e.op = "text" /\ e.x = margin + 20000

\* the status cells of both tables, in drawing order
StatusCells(tr) == SelectSeq(tr, IsStatusCell)

\* the raw control value of the k-th status cell
ControlOfRow(fd, k) ==
  IF k <= Len(fizikiLabels) THEN At(fd.fizikiKontrol, k)
  ELSE At(fd.zulaKontrol, k - Len(fizikiLabels))

Blocks(tr) == {i \in 1..Len(tr) : tr[i].op = "block"}

\* the sections whose header has been drawn
DrawnSections(tr) ==
  {k \in 1..Len(Sections) :
     \E i \in 1..Len(tr) : tr[i].op = "text" /\ tr[i].text = Sections[k].title}

\* the context the pending statement of addComprehensivePage ends in
StepCtx == awaited(pc, Here, formData, S_date)

----------------------------------------------------------------------------
(* Properties *)

\* C1: the string drawLabelValue finally draws in the value column, measured
\* at the font size it finally uses, is no wider than maxValueWidth, whether
\* the value was left as is, shrunk, or truncated with an ellipsis.
C1_WidthGuarantee ==
  \A i \in ValueCells(trace) :
    /\ trace[i].op = "text"
    /\ measure(trace[i].text, trace[i].size) <= maxValueWidth(pageWidth) * UnitsPerEm

\* a value that was shrunk to the smallest size and still had to be cut
C1_Witness ==
  \E i \in ValueCells(trace) :
    LET text == trace[i].text
    IN  /\ trace[i].size = 700
        /\ Len(text) > 3
        /\ SubSeq(text, Len(text) - 2, Len(text)) = S_ellipsis
        /\ formData.tasiyiciFirma.t = "string"
        /\ Len(formData.tasiyiciFirma.s) > Len(text) - 3
        /\ SubSeq(formData.tasiyiciFirma.s, 1, Len(text) - 3) = SubSeq(text, 1, Len(text) - 3)

\* C2, as stated: during one pass every assignment to currentY sets it to a
\* value less than or equal to the value it held just before.
C2_NeverIncreases ==
  \A i \in 2..Len(trace) :
    trace[i].op = "cursor" => trace[i].y <= PrevY(trace, i)

\* C2, amended: no primitive (header, title, section header, label/value
\* row, table row) increases currentY, and no assignment sets currentY above
\* the value it had when the enclosing section routine was entered, so that
\* no awaited step of the pass leaves the cursor higher than it found it;
\* a section routine may raise the cursor in mid-routine, back to the top of
\* the block it is drawing.
C2_NeverAboveEntry ==
  \A i \in 2..Len(trace) :
    trace[i].op = "cursor" =>
      /\ trace[i].by \in Primitives => trace[i].y <= PrevY(trace, i)
      /\ trace[i].y <= EntryY(trace, i)

\* a finished pass in which a section routine has raised the cursor
C2_Witness ==
  /\ pc.at = "save"
  /\ \E i \in 2..Len(trace) :
       /\ trace[i].op = "cursor"
       /\ trace[i].by = "drawBasicInfo"
       /\ trace[i].y > PrevY(trace, i)
       /\ trace[i].y = EntryY(trace, i)

\* C3, as stated: after every two-column block the cursor equals
\* min(y after column A, y after column B) minus the block's spacing.
C3_BelowTallerColumn ==
  \A i \in Blocks(trace) :
    trace[i].y = Min(trace[i].yAfterA, trace[i].yAfterB) - trace[i].spacing

\* C3, amended: after every two-column block the cursor equals
\* min(y after column A, y after column B) minus the block's spacing, except
\* after the existing-seal block of a record without muhurKontrol: its
\* column B is empty and the cursor is put two more line heights down, at
\* y after column A - 2 * lineHeight - fieldSpacing.
C3_BelowTallerColumnOrFloor ==
  \A i \in Blocks(trace) :
    IF trace[i].name = "existingSeal" /\ ~Truthy(formData.muhurKontrol)
    THEN /\ trace[i].yAfterB = trace[i].yAfterA + lineHeight
         /\ trace[i].y = trace[i].yAfterA - (2 * lineHeight) - fieldSpacing
    ELSE trace[i].y = Min(trace[i].yAfterA, trace[i].yAfterB) - trace[i].spacing

\* both seal blocks of a record that came sealed but has no muhurKontrol
C3_Witness ==
  /\ formData.muhurDurumu = Str(S_Evet)
  /\ ~Truthy(formData.muhurKontrol)
  /\ \E i, j \in Blocks(trace) :
       /\ trace[i].name = "existingSeal"
       /\ trace[j].name = "newSeal"
       /\ trace[j].y = Min(trace[j].yAfterA, trace[j].yAfterB) - sectionSpacing

\* C4: drawControlTable writes "✓ Uygun" for true, "uygun" and "on",
\* "✗ Uygun Değil" for false, "uygunsuz" and "off", and "-" for null,
\* undefined, the empty string and the number 42.
C4_StatusMapping ==
  \A k \in 1..Len(StatusCells(trace)) :
    LET control == ControlOfRow(formData, k)
        text == StatusCells(trace)[k].text
    IN  /\ (control = Bool(TRUE) \/ control = Str(S_uygun) \/ control = Str(S_on))
             => text = S_Suitable
        /\ (control = Bool(FALSE) \/ control = Str(S_uygunsuz) \/ control = Str(S_off))
             => text = S_NotSuitable
        /\ (control = Null \/ control = Undef \/ control = Str(<<>>) \/ control = Num(42))
             => text = S_dash

\* a table with an "on" row, an "off" row and a null row
C4_Witness ==
  LET cells == StatusCells(trace)
  IN  \E k1, k2, k3 \in 1..Len(cells) :
        /\ ControlOfRow(formData, k1) = Str(S_on) /\ cells[k1].text = S_Suitable
        /\ ControlOfRow(formData, k2) = Str(S_off) /\ cells[k2].text = S_NotSuitable
        /\ ControlOfRow(formData, k3) = Null /\ cells[k3].text = S_dash

\* C5: a row whose control value is the object {label, uygun: true/false}
\* that the checklist step stores gets the status token of the boolean.
C5_SameTokenForEveryShape ==
  \A k \in 1..Len(StatusCells(trace)) :
    LET control == ControlOfRow(formData, k)
    IN  (control.t = "object" /\ control.uygun.t = "boolean")
          => StatusCells(trace)[k].text = statusText(control.uygun)

\* C6: drawControlTable draws exactly labels.length rows, a label, a status
\* and an explanation cell each, row i (from 0) at y = startY - rowHeight * i,
\* whatever the lengths of controls and explanations; a missing entry is
\* drawn as "-", and the cursor ends at
\* startY - rowHeight * labels.length - fieldSpacing.
C6_RowCount ==
  [][ (pc.at = "body" /\ Sections[pc.sec].routine \in
                           {"drawPhysicalControl", "drawHiddenCompartmentControl"})
      => LET physical == Sections[pc.sec].routine = "drawPhysicalControl"
             labels == IF physical THEN fizikiLabels ELSE zulaLabels
             controls == IF physical THEN formData.fizikiKontrol ELSE formData.zulaKontrol
             explanations == IF physical THEN formData.fizikiAciklama ELSE formData.zulaAciklama
             n == Len(labels)
             startY == currentY
             new == SubSeq(trace', Len(trace) + 1, Len(trace'))
         IN  /\ Len(new) = (4 * n) + 1
             /\ \A i \in 0..(n - 1) :
                  /\ new[(4 * i) + 1].op = "text"
                  /\ new[(4 * i) + 1].x = margin
                  /\ new[(4 * i) + 1].y = startY - (rowHeight * i)
                  /\ new[(4 * i) + 1].text[3] = labels[i + 1].text
                  /\ new[(4 * i) + 2].op = "text"
                  /\ new[(4 * i) + 2].x = margin + 20000
                  /\ new[(4 * i) + 2].y = startY - (rowHeight * i)
                  /\ At(controls, i + 1) = Undef => new[(4 * i) + 2].text = S_dash
                  /\ new[(4 * i) + 3].op = "text"
                  /\ new[(4 * i) + 3].x = margin + 28000
                  /\ new[(4 * i) + 3].y = startY - (rowHeight * i)
                  /\ At(explanations, i + 1) = Undef => new[(4 * i) + 3].text = S_dash
                  /\ new[(4 * i) + 4].op = "cursor"
                  /\ new[(4 * i) + 4].y = startY - (rowHeight * (i + 1))
             /\ new[(4 * n) + 1].op = "cursor"
             /\ new[(4 * n) + 1].y = startY - (rowHeight * n) - fieldSpacing
             /\ currentY' = startY - (rowHeight * n) - fieldSpacing ]_vars

\* the physical table drawn from a controls array longer than its labels
C6_Witness ==
  /\ pc = [at |-> "header", sec |-> 6]
  /\ formData.fizikiKontrol.t = "array"
  /\ Len(formData.fizikiKontrol.items) > Len(fizikiLabels)
  /\ Len(StatusCells(trace)) = Len(fizikiLabels)
  /\ currentY = EntryY(trace, Len(trace) + 1)
                  - (rowHeight * Len(fizikiLabels)) - fieldSpacing

\* the label drawn before a signature, and the payload and box it goes with
SignatureLabels ==
  { [text |-> <<"Sofor ", ToString(i), " Imza:">>, driver |-> i, dx |-> 8000] : i \in 1..2 }
  \cup { [text |-> <<"Kontrol Eden Imza:">>, driver |-> 0, dx |-> 9000] }

SignatureOf(fd, label) ==
  IF label.driver = 0 THEN fd.kontrolEdenImza
  ELSE fd.soforler.items[label.driver].imza

\* C7: when a signature payload cannot be embedded, embedSignature draws the
\* placeholder at the origin of the signature box and returns; the routine
\* goes on, generatePDF never rejects with the embedding error, and a
\* document it returns is not empty.
C7_SignatureFailureIsNotFatal ==
  /\ result.error # "embedPng"
  /\ result.status = "resolved" => result.pages >= 1
  /\ \A i \in 1..Len(trace) : \A label \in SignatureLabels :
       (/\ trace[i].op = "text"
        /\ trace[i].text = label.text
        /\ SignatureOf(formData, label) = NotPng)
       => /\ i + 2 <= Len(trace)
          /\ trace[i + 1] = [op |-> "text", text |-> Placeholder,
                             x |-> trace[i].x + label.dx, y |-> trace[i].y - 1800,
                             size |-> 800, align |-> "left", bold |-> FALSE]
          /\ trace[i + 2].op = "cursor"
          /\ trace[i + 2].y = trace[i].y - 2500

\* a document returned although a driver's and the inspector's signature
\* could not be embedded
C7_Witness ==
  /\ result.status = "resolved"
  /\ formData.kontrolEdenImza = NotPng
  /\ formData.soforler.t = "array"
  /\ Len(formData.soforler.items) = 2
  /\ formData.soforler.items[2].t = "object"
  /\ formData.soforler.items[2].imza = NotPng
  /\ Cardinality({i \in 1..Len(trace) :
                    trace[i].op = "text" /\ trace[i].text = Placeholder}) = 2

C9_OnePagePerDocument ==
  result.status = "resolved" => result.pages = 1

\* C10: when a statement of addComprehensivePage throws, generatePDF rejects
\* with that error and returns no document, and no section after the
\* failing one is drawn.
C10_ThrowAborts ==
  [][ (pc.at \notin {"idle", "save"} /\ StepCtx.err # "none")
      => /\ pc' = Idle
         /\ result'.status = "rejected"
         /\ result'.error = StepCtx.err
         /\ result'.pages = 0
         /\ DrawnSections(trace') \subseteq 1..pc.sec ]_vars

\* a pass that a null entry of soforler has ended in the third section
C10_Witness ==
  /\ pc = Idle
  /\ result.status = "rejected"
  /\ result.error = "TypeError"
  /\ result.at = "drawDriverInfo"
  /\ unicodeFont = "Roboto"
  /\ DrawnSections(trace) = 1..3

----------------------------------------------------------------------------
(* Concurrent invocations *)

IsPrefix(s, t) == Len(s) <= Len(t) /\ SubSeq(t, 1, Len(s)) = s

\* the cursor trajectory recorded in a trace
Trajectory(tr) == SelectSeq(tr, LAMBDA e : e.op = "cursor")

\* the draw calls recorded in a trace
DrawCalls(tr) == SelectSeq(tr, LAMBDA e : e.op \in {"text", "rect", "image"})

Started(k) == invocations[k].pc.at \notin {"absent", "initialize"}

\* every invocation run alone to its end, by record, font load and clock
AloneRuns ==
  [fd \in InvocationForms, fontLoads \in BOOLEAN, now \in ClockStrings \cup {S_date} |->
     ranAlone(NewGenerator(fd), fontLoads, now)]

\* invocation k, had it run alone to its end
AloneOf(k) ==
  AloneRuns[invocations[k].formData, invocations[k].unicodeFont = "Roboto",
            invocations[k].clock]

SameAsAlone(k) ==
  Bind(AloneOf(k), LAMBDA a :
    /\ IsPrefix(invocations[k].trace, a.trace)
    /\ invocations[k].pc.at = "done" =>
         /\ DrawCalls(invocations[k].trace) = DrawCalls(a.trace)
         /\ Trajectory(invocations[k].trace) = Trajectory(a.trace)
         /\ invocations[k].currentY = a.currentY
         /\ invocations[k].result = a.result
         /\ invocations[k].pageCount = a.pageCount)

\* a step of one invocation leaves the generator of every other one as it was
OwnFieldsOnly ==
  \A k \in InvocationIds :
    invocations'[k] # invocations[k] =>
      \A j \in InvocationIds \ {k} : invocations'[j] = invocations[j]

\* C11: however the steps of two generateDynamicPDF invocations interleave,
\* each invocation issues the draw calls and follows the cursor trajectory it
\* issues when it runs alone, and no step of one invocation changes the
\* document, cursor or font handle of the other.
C11_InvocationsIsolated ==
  /\ [](\A k \in InvocationIds : Started(k) => SameAsAlone(k))
  /\ [][OwnFieldsOnly]_vars

\* both invocations are in the middle of their pages, on different records
\* and at different cursors
C11_Witness ==
  /\ invocations[1].pc = [at |-> "body", sec |-> 3]
  /\ invocations[2].pc = [at |-> "header", sec |-> 5]
  /\ invocations[1].formData # invocations[2].formData
  /\ invocations[1].unicodeFont = "Roboto"
  /\ invocations[2].unicodeFont = "Roboto"
  /\ invocations[1].currentY # invocations[2].currentY

----------------------------------------------------------------------------
(* Order of the sections *)

\* the routine that assigns the cursor while section k is drawn
WriterOf(k) ==
  IF Sections[k].routine \in {"drawPhysicalControl", "drawHiddenCompartmentControl"}
  THEN "drawControlTable" ELSE Sections[k].routine

SectionWriters == {WriterOf(k) : k \in 1..Len(Sections)}

IsHeaderOf(e, k) ==
  e.op = "text" /\ e.text = Sections[k].title /\ e.bold /\ e.align = "center"

\* what a trace entry tells about the statement that made it: the document
\* header, the title, the header of section k, the body of a section, or
\* nothing ("-")
MarkOf(e) ==
  CASE e.op = "cursor" /\ e.by = "drawDocumentHeader" -> "drawDocumentHeader"
    [] e.op = "text" /\ e.size = 1400 -> "drawTitle"
    [] e.op = "text" /\ (\E k \in 1..Len(Sections) : IsHeaderOf(e, k)) ->
         Sections[CHOOSE k \in 1..Len(Sections) : IsHeaderOf(e, k)].title[1]
    [] e.op = "cursor" /\ e.by \in SectionWriters -> e.by
    [] OTHER -> "-"

IsHeaderMark(m) == \E k \in 1..Len(Sections) : m = Sections[k].title[1]

\* the marks of a trace, a run of equal body marks taken as one
Collapsed(ms) ==
  Bind({j \in 1..Len(ms) : j = 1 \/ ms[j] # ms[j - 1] \/ IsHeaderMark(ms[j])}, LAMBDA kept :
    [n \in 1..Cardinality(kept) |->
       ms[CHOOSE j \in kept : Cardinality({i \in kept : i <= j}) = n]])

Marks(tr) ==
  Bind(SelectSeq([i \in 1..Len(tr) |-> MarkOf(tr[i])], LAMBDA m : m # "-"), Collapsed)

RECURSIVE SectionMarks(_)
SectionMarks(k) ==
  IF k = 0 THEN <<>>
  ELSE SectionMarks(k - 1) \o << Sections[k].title[1], WriterOf(k) >>

\* the order addComprehensivePage is expected to keep
ExpectedMarks == << "drawDocumentHeader", "drawTitle" >> \o SectionMarks(Len(Sections))

\* the index in tr of the header of section k
HeaderIndex(tr, k) == CHOOSE i \in 1..Len(tr) : IsHeaderOf(tr[i], k)

\* the status cells of the table drawn in section k of a complete trace
RowsOfSection(tr, k) ==
  { i \in 1..Len(tr) :
      /\ IsStatusCell(tr[i])
      /\ i > HeaderIndex(tr, k)
      /\ i < HeaderIndex(tr, k + 1) }

\* C12: addComprehensivePage draws the document-info header, the title and
\* then the seven sections basic, vehicle, driver, seal, physical table,
\* concealment table, inspector, each exactly once and in this order, the
\* header of a section before its content; the physical table has 5 rows and
\* the concealment table 18.
C12_SectionsOnceInOrder ==
  /\ IsPrefix(Marks(trace), ExpectedMarks)
  /\ pc.at = "save" =>
       /\ Marks(trace) = ExpectedMarks
       /\ Cardinality(RowsOfSection(trace, 5)) = 5
       /\ Cardinality(RowsOfSection(trace, 6)) = 18

\* a complete page of a record with drivers, an existing seal and controls
C12_Witness ==
  /\ pc.at = "save"
  /\ formData.muhurDurumu = Str(S_Evet)
  /\ formData.soforler.t = "array"
  /\ Len(formData.soforler.items) = 2
  /\ Len(Marks(trace)) = 16
  /\ Len(StatusCells(trace)) = 23

----------------------------------------------------------------------------
(* The seal blocks *)

\* the label/value rows of the block of the trace with the given name: the
\* text entries between the block's sub-header and its "block" entry
BlockEnd(tr, name) == CHOOSE i \in 1..Len(tr) : tr[i].op = "block" /\ tr[i].name = name

HasBlock(tr, name) == \E i \in 1..Len(tr) : tr[i].op = "block" /\ tr[i].name = name

\* the values drawLabelValue drew in the right column of the named block
RightValues(tr, name) ==
  Bind(BlockEnd(tr, name), LAMBDA e :
    Bind(CHOOSE b \in 1..e : tr[b].op = "text" /\ tr[b].bold /\ tr[b].size = 1000
                             /\ \A j \in (b + 1)..e : ~(tr[j].op = "text" /\ tr[j].bold
                                                         /\ tr[j].size = 1000), LAMBDA b :
      SelectSeq(SubSeq(tr, b + 1, e),
                LAMBDA x : x.op = "text" /\ ~x.bold
                           /\ x.x = rightCol(pageWidth) + labelWidth)))

\* the four checks the new-seal block is drawn from
NewSealChecks(fd) ==
  Bind(IF Truthy(fd.yeniMuhurKontrol) THEN fd.yeniMuhurKontrol
       ELSE SealObject(fd.cikis_muhurEvrakUygun, fd.cikis_muhurSaglamlik,
                       fd.cikis_muhurGerginlik, fd.cikis_muhurKilit), LAMBDA c :
    [i \in 1..4 |-> Index(c, SealFields[i])])

SealSectionDrawn == pc.at = "header" /\ pc.sec = 5

\* drawSealInfo: the existing-seal block exactly for muhurDurumu "Evet", the
\* new-seal block always, "-" for an absent check
DrawSealInfoBlocks ==
  SealSectionDrawn =>
    /\ HasBlock(trace, "existingSeal") <=> formData.muhurDurumu = Str(S_Evet)
    /\ HasBlock(trace, "newSeal")
    /\ Len(RightValues(trace, "newSeal")) = 4
    /\ \A i \in 1..4 :
         NewSealChecks(formData)[i].t \in {"undefined", "null"}
           => RightValues(trace, "newSeal")[i].text = S_dash

\* PdfTemplate: the same of the two seal tables; an absent check has neither
\* mark
TemplateSealBlocks ==
  htmlCall.id > 0 =>
    /\ htmlCall.rendered.mevcutMuhur.rows <=> htmlCall.formData.muhurDurumu = Str(S_Evet)
    /\ \A i \in 1..4 :
         Index(htmlCall.formData.yeniMuhurKontrol, SealFields[i]).t \in {"undefined", "null"}
           => /\ htmlCall.rendered.yeniMuhur.checks[i].uygun = ""
              /\ htmlCall.rendered.yeniMuhur.checks[i].uygunDegil = ""

\* C13: the existing-seal block is there exactly when muhurDurumu is "Evet",
\* the new-seal block with its four check results is there for every record,
\* and a check that is absent is shown as unanswered ("-", no mark), in the
\* drawn page and in the rendered template alike.
C13_SealBlocks == DrawSealInfoBlocks /\ TemplateSealBlocks

----------------------------------------------------------------------------
(* Structured control rows in the template *)

\* C14: a structured row {label, uygun, aciklama} is rendered Suitable when
\* uygun is true, NotSuitable when uygun is false, and with neither mark when
\* uygun is null or undefined.
C14_StructuredRowMarks ==
  htmlCall.id > 0 =>
    \A i \in 1..Len(fizikiLabels) :
      At(htmlCall.formData.fizikiKontrol, i).t = "object" =>
        Bind(At(htmlCall.formData.fizikiKontrol, i).uygun, LAMBDA uygun :
          /\ htmlCall.rendered.fiziki[i].uygun = (IF uygun = Bool(TRUE) THEN "checked" ELSE "")
          /\ htmlCall.rendered.fiziki[i].uygunDegil =
               (IF uygun = Bool(FALSE) THEN "checked" ELSE ""))

----------------------------------------------------------------------------
(* Cleanup of generatePdfFromHtml *)

\* C18: when a generatePdfFromHtml call has finished, normally or by a
\* throw, its React root is unmounted and its container is detached from
\* document.body.
C18_CleanupAlways ==
  (htmlCall.pc = "idle" /\ htmlCall.result # "none")
    => /\ htmlCall.id \notin roots
       /\ htmlCall.id \notin documentBody

----------------------------------------------------------------------------
(* String controls and explanations of drawControlTable *)

S_not == <<"n", "o", "t">>

\* the decision stated for a string control
StatedForString(str) ==
  IF str \in {S_uygun, S_on} THEN S_Suitable
  ELSE IF str \in {S_uygunsuz, S_off} THEN S_NotSuitable
  ELSE IF includes(toLowerCase(str), S_degil) THEN S_NotSuitable
  ELSE IF includes(toLowerCase(str), S_uygun) /\ ~includes(toLowerCase(str), S_not)
  THEN S_Suitable
  ELSE S_dash

\* C15: for a string control, drawControlTable writes Suitable for exactly
\* "uygun" or "on", NotSuitable for exactly "uygunsuz" or "off"; for any other
\* string NotSuitable if it contains "degil", Suitable if it contains "uygun"
\* and neither "degil" nor "not", and "-" otherwise.
C15_StringDecision ==
  \A k \in 1..Len(StatusCells(trace)) :
    ControlOfRow(formData, k).t = "string"
      => StatusCells(trace)[k].text = StatedForString(ControlOfRow(formData, k).s)

\* the explanation cells of both tables, in drawing order
ExplanationCells(tr) == SelectSeq(tr, LAMBDA e : e.op = "text" /\ e.x = margin + 28000)

\* the entry of the parallel explanation array for the k-th row
ExplanationOfRow(fd, k) ==
  IF k <= Len(fizikiLabels) THEN At(fd.fizikiAciklama, k)
  ELSE At(fd.zulaAciklama, k - Len(fizikiLabels))

HasText(v) == v.t = "string" /\ trim(v.s) # <<>>

\* C16: the explanation drawn for a row is the aciklama of its structured
\* object when it has one, else the entry of the parallel explanation array
\* at the same index, else "-".
C16_ExplanationPrecedence ==
  \A k \in 1..Len(ExplanationCells(trace)) :
    Bind(Index(ControlOfRow(formData, k), "aciklama"), LAMBDA own :
      ExplanationCells(trace)[k].text =
        (IF HasText(own) THEN own.s
         ELSE IF HasText(ExplanationOfRow(formData, k)) THEN ExplanationOfRow(formData, k).s
         ELSE S_dash))

----------------------------------------------------------------------------
(* getValueOrDash *)

Placeholders == {S_undefined, S_null, S_dash, S_Belirtilmemis, S_belirtilmemis}

\* is v a missing scalar: null, undefined, an empty or whitespace-only
\* string, or one of the placeholder strings
IsMissing(v) ==
  \/ v.t \in {"null", "undefined"}
  \/ /\ v.t = "string"
     /\ \/ \A i \in 1..Len(v.s) : v.s[i] \in {" ", "tab"}
        \/ v.s \in Placeholders

\* the value cell drawn after the label "Sevk Durumu:"
SevkDurumuCells(tr) ==
  {i \in 2..Len(tr) : tr[i - 1].op = "text" /\ tr[i - 1].text = <<"Sevk Durumu:">>}

\* C17: getValueOrDash gives "-" for a missing scalar and the trimmed string
\* form of any other value, so the value cell of a label/value field is "-"
\* for a missing scalar and never empty.
C17_DashForMissing ==
  /\ \A v \in ScalarValues :
       /\ getValueOrDash(v) = (IF IsMissing(v) THEN S_dash ELSE trim(StringOf(v)))
       /\ getValueOrDash(v) # <<>>
  /\ \A i \in SevkDurumuCells(trace) :
       /\ trace[i].text # <<>>
       /\ IsMissing(formData.sevkDurumu) => trace[i].text = S_dash
       /\ ~IsMissing(formData.sevkDurumu)
            => trace[i].text = trim(StringOf(formData.sevkDurumu))

\* the field drawn from a whitespace-only string, and from a padded one
C17_Witness ==
  /\ formData.sevkDurumu = Str(<<" ", "tab">>)
  /\ \E i \in SevkDurumuCells(trace) : trace[i].text = S_dash

----------------------------------------------------------------------------
(* Fitting a signature into its box *)

SignatureBoxWidth == 7000
SignatureBoxHeight == 1800

\* the images of the trace, each with the label drawn before it
SignatureImages(tr) ==
  {i \in 2..Len(tr) : tr[i].op = "image" /\ tr[i - 1].op = "text"
                      /\ \E label \in SignatureLabels : label.text = tr[i - 1].text}

LabelOf(e) == CHOOSE label \in SignatureLabels : label.text = e.text

\* is the image wider, for its height, than the box
IsWide(png) == png.width * SignatureBoxHeight > SignatureBoxWidth * png.height

Centered(e, label) ==
  /\ e.x = (label.x + LabelOf(label).dx) + (SignatureBoxWidth - e.width) \div 2
  /\ e.y = (label.y - 1800) + (SignatureBoxHeight - e.height) \div 2

\* C19 as stated: an image of aspect ratio greater than that of the box is
\* bound by the height of the box (finalHeight = box.height,
\* finalWidth = box.height * aspectRatio), any other by its width; the image
\* is centered in the box.
C19_WideBoundByHeight ==
  \A i \in SignatureImages(trace) :
    Bind(SignatureOf(formData, LabelOf(trace[i - 1])), LAMBDA png :
      /\ IsWide(png) => /\ trace[i].height = SignatureBoxHeight
                        /\ trace[i].width = (SignatureBoxHeight * png.width) \div png.height
      /\ ~IsWide(png) => trace[i].width = SignatureBoxWidth
      /\ Centered(trace[i], trace[i - 1]))

\* C19: an image of aspect ratio greater than that of the box is bound by
\* the width of the box (finalWidth = box.width,
\* finalHeight = box.width / aspectRatio), any other by its height
\* (finalHeight = box.height, finalWidth = box.height * aspectRatio); the
\* image is centered in the box and never exceeds it.
C19_WideBoundByWidth ==
  \A i \in SignatureImages(trace) :
    Bind(SignatureOf(formData, LabelOf(trace[i - 1])), LAMBDA png :
      /\ IsWide(png) => /\ trace[i].width = SignatureBoxWidth
                        /\ trace[i].height = (SignatureBoxWidth * png.height) \div png.width
      /\ ~IsWide(png) => /\ trace[i].height = SignatureBoxHeight
                         /\ trace[i].width = (SignatureBoxHeight * png.width) \div png.height
      /\ Centered(trace[i], trace[i - 1])
      /\ trace[i].width <= SignatureBoxWidth
      /\ trace[i].height <= SignatureBoxHeight)

\* a page with the wide signature of a driver and the tall one of the
\* inspector
C19_Witness ==
  /\ pc.at = "save"
  /\ formData.kontrolEdenImza = Png(TRUE, 50, 200)
  /\ \E i, j \in SignatureImages(trace) :
       /\ LabelOf(trace[i - 1]).driver = 1
       /\ trace[i].width = SignatureBoxWidth
       /\ trace[i].height = 875
       /\ LabelOf(trace[j - 1]).driver = 0
       /\ trace[j].height = SignatureBoxHeight
       /\ trace[j].width = 450

----------------------------------------------------------------------------
(* The bottom edge of the page *)

IsDrawCall(e) == e.op \in {"text", "rect", "image"}

\* the lowest y of a draw call of the trace (the page height if none)
LowestDraw(tr) ==
  Bind({tr[i].y : i \in {j \in 1..Len(tr) : IsDrawCall(tr[j])}}, LAMBDA ys :
    IF ys = {} THEN A4Height ELSE CHOOSE y \in ys : \A z \in ys : y <= z)

\* the fullest record: two drivers with signatures, an existing seal with
\* its four checks, and the signature of the inspector
IsFullest(fd) ==
  /\ fd.soforler.t = "array"
  /\ Len(fd.soforler.items) = 2
  /\ \A i \in 1..2 : fd.soforler.items[i].t = "object" /\ Truthy(fd.soforler.items[i].imza)
  /\ fd.muhurDurumu = Str(S_Evet)
  /\ Truthy(fd.muhurKontrol)
  /\ Truthy(fd.kontrolEdenImza)

\* C20 as stated: the page of the fullest record has a draw call below the
\* bottom edge of the page, y < 0.
C20_DrawsBelowPage ==
  (pc.at = "save" /\ IsFullest(formData)) => LowestDraw(trace) < 0

\* C20: no record has a draw call below the bottom edge of the page; on the
\* page of the fullest record the lowest draw call is at y = 0.89 or above,
\* and only the cursor, after the last draw call, is below the edge, at
\* -6.11.
C20_NoDrawBelowPage ==
  /\ LowestDraw(trace) >= 89
  /\ pc.at # "idle" => currentY >= -611
  /\ (pc.at = "save" /\ IsFullest(formData))
       => /\ LowestDraw(trace) >= 89
          /\ currentY = -611

\* the page of the fullest record, complete
C20_Witness ==
  /\ pc.at = "save"
  /\ IsFullest(formData)
  /\ LowestDraw(trace) = 89
  /\ currentY = -611

----------------------------------------------------------------------------
(* The clock *)

Finished(k) == invocations[k].pc.at = "done"

\* is the timestamp of the record absent or empty
NoTimestamp(fd) == fd.timestamp \in {Undef, Null, Str(<<>>)}

\* C21: two generatePDF runs on the same record with the same font issue the
\* same draw calls when the record has a timestamp, whatever the clock reads
\* in each run: the clock reaches the page only through a record whose
\* timestamp is absent or empty.
C21_ClockOnlyWithoutTimestamp ==
  \A j, k \in InvocationIds :
    (/\ Finished(j) /\ Finished(k)
     /\ invocations[j].formData = invocations[k].formData
     /\ invocations[j].unicodeFont = invocations[k].unicodeFont
     /\ ~NoTimestamp(invocations[j].formData))
    => /\ DrawCalls(invocations[j].trace) = DrawCalls(invocations[k].trace)
       /\ invocations[j].result = invocations[k].result

\* two runs of one record with a timestamp, made at different times
C21_Witness ==
  /\ Finished(1) /\ Finished(2)
  /\ invocations[1].formData = invocations[2].formData
  /\ ~NoTimestamp(invocations[1].formData)
  /\ invocations[1].unicodeFont = "Roboto" /\ invocations[2].unicodeFont = "Roboto"
  /\ invocations[1].result.status = "resolved"
  /\ invocations[1].clock # invocations[2].clock
  /\ DrawCalls(invocations[1].trace) # <<>>

\* two runs of one record without timestamp whose pages differ
ClockShows ==
  /\ Finished(1) /\ Finished(2)
  /\ invocations[1].formData = invocations[2].formData
  /\ invocations[1].unicodeFont = invocations[2].unicodeFont
  /\ NoTimestamp(invocations[1].formData)
  /\ DrawCalls(invocations[1].trace) # DrawCalls(invocations[2].trace)

----------------------------------------------------------------------------
(* Truncation *)

\* the value cells of the carrier row
FirmaCells(tr) ==
  {i \in ValueCells(tr) : tr[i - 1].op = "text" /\ tr[i - 1].text = <<"Tasiyici Firma:">>}

\* the value drawLabelValue was called with for the carrier row
FirmaValue == getValueOrDash(formData.tasiyiciFirma)

\* did drawLabelValue truncate that value: it overflows even at 7pt
FirmaTruncated == Overflows(FirmaValue, 700, maxValueWidth(pageWidth))

EndsWith(s, t) == Len(s) >= Len(t) /\ SubSeq(s, Len(s) - Len(t) + 1, Len(s)) = t

\* C22, as stated: whenever drawLabelValue truncates a value, the displayed
\* string ends in "..." and has strictly fewer characters than the value.
C22_TruncatedIsShorter ==
  \A i \in FirmaCells(trace) :
    FirmaTruncated
    => /\ EndsWith(trace[i].text, S_ellipsis)
       /\ Len(trace[i].text) < Len(FirmaValue)

\* C22: whenever drawLabelValue truncates a value, the displayed string ends
\* in "..."; what stands before the ellipsis is a prefix of the value with
\* strictly fewer characters than the value and without a blank at its end,
\* so that the displayed string has at most two characters more than the
\* value.
C22_TruncatedEndsInEllipsis ==
  \A i \in FirmaCells(trace) :
    FirmaTruncated
    => /\ EndsWith(trace[i].text, S_ellipsis)
       /\ LET cut == SubSeq(trace[i].text, 1, Len(trace[i].text) - 3)
          IN  /\ IsPrefix(cut, FirmaValue)
              /\ Len(cut) < Len(FirmaValue)
              /\ cut = <<>> \/ ~IsSpace(cut[Len(cut)])
              /\ Len(trace[i].text) <= Len(FirmaValue) + 2

\* a truncated value whose displayed string is no shorter than the value
C22_Witness ==
  \E i \in FirmaCells(trace) :
    /\ FirmaTruncated
    /\ EndsWith(trace[i].text, S_ellipsis)
    /\ Len(trace[i].text) >= Len(FirmaValue)

----------------------------------------------------------------------------
(* The shrink loop *)

\* the sizes the loop of drawLabelValue passes through, 9pt down to 7pt
SizeGrid == {900 - 50 * n : n \in 0..4}

\* the sizes of the grid at which the whole value fits the value column
FittingSizes(value, width) == {s \in SizeGrid : ~Overflows(value, s, width)}

\* C24: the font size drawLabelValue finally uses is on the 0.5pt grid
\* between 7 and 9 and is the largest size of the grid at which the whole
\* value fits, 7 if it fits at none; the value is cut only when it does not
\* fit at 7pt, and the label is drawn at the same size.  The loop ends after
\* at most four steps.
C24_LargestFittingSize ==
  /\ \A i \in ValueCells(trace) :
       /\ trace[i].size \in SizeGrid
       /\ trace[i - 1].size = trace[i].size
  /\ \A i \in FirmaCells(trace) :
       LET fits == FittingSizes(FirmaValue, maxValueWidth(pageWidth))
       IN  /\ fits # {} => /\ trace[i].size \in fits
                           /\ \A s \in fits : s <= trace[i].size
                           /\ trace[i].text = FirmaValue
           /\ fits = {} => /\ trace[i].size = 700
                           /\ trace[i].text # FirmaValue
           /\ trace[i].text # FirmaValue <=> FirmaTruncated

\* a value that fits at 8pt but not at 8.5pt, drawn whole at 8pt
C24_Witness ==
  \E i \in FirmaCells(trace) :
    /\ trace[i].size = 800
    /\ trace[i].text = FirmaValue
    /\ Overflows(FirmaValue, 850, maxValueWidth(pageWidth))

----------------------------------------------------------------------------
(* The steps of the cursor *)

\* the cursor entries that end a drawLabelValue call
LabelValueEnds(tr) ==
  {i \in 2..Len(tr) : tr[i].op = "cursor" /\ tr[i].by = "drawLabelValue"}

\* the cursor entries that end a drawSectionHeader call: the second
\* assignment, after the title
HeaderEnds(tr) ==
  {i \in 4..Len(tr) : /\ tr[i].op = "cursor" /\ tr[i].by = "drawSectionHeader"
                      /\ tr[i - 1].op = "text"}

CursorSteps ==
  /\ \A i \in LabelValueEnds(trace) :
       /\ trace[i].y = PrevY(trace, i) - lineHeight
       /\ trace[i - 1].op = "text" /\ trace[i - 2].op = "text"
  /\ \A i \in HeaderEnds(trace) :
       /\ trace[i - 3].op = "cursor" /\ trace[i - 3].by = "drawSectionHeader"
       /\ trace[i - 3].y = PrevY(trace, i - 3) - 200
       /\ trace[i].y = PrevY(trace, i - 3) - 1400

\* a drawSectionHeader call that returns, and any section routine, with the
\* drawLabelValue calls it makes, leave every field but currentY as it was
OnlyCursorMoves ==
  /\ (pc.at = "header" /\ pc'.at = "body")
       => currentY' = currentY - 1400
  /\ pc.at \in {"header", "body"}
       => UNCHANGED <<pdfDoc, pageCount, unicodeFont, pageHeight, pageWidth, formData>>

\* C25: every drawLabelValue call lowers currentY by exactly lineHeight (12)
\* and every drawSectionHeader call that returns by exactly 14 (2 + 12),
\* whatever the label, the value, the title, the column, and whether the
\* value was shrunk or truncated; neither changes another field of the
\* generator.
C25_FixedCursorSteps == []CursorSteps /\ [][OnlyCursorMoves]_vars

\* a truncated value, drawn at 7pt, whose line is as high as any other
C25_Witness ==
  /\ \E i \in FirmaCells(trace) :
       /\ FirmaTruncated
       /\ trace[i].size = 700
       /\ i + 1 \in LabelValueEnds(trace)
       /\ trace[i + 1].y = PrevY(trace, i + 1) - lineHeight
  /\ Cardinality(HeaderEnds(trace)) = Len(Sections)
  /\ pc.at = "save"

----------------------------------------------------------------------------
(* The signature inside its box *)

\* the box embedSignature was given for the image under label: its lower
\* left corner
BoxOf(label) == [x |-> label.x + LabelOf(label).dx, y |-> label.y - 1800]

Abs(n) == IF n < 0 THEN -n ELSE n

\* e lies inside the box at b
Inside(e, b) ==
  /\ e.width <= SignatureBoxWidth /\ e.height <= SignatureBoxHeight
  /\ e.x - b.x >= 0 /\ e.y - b.y >= 0
  /\ e.x + e.width <= b.x + SignatureBoxWidth
  /\ e.y + e.height <= b.y + SignatureBoxHeight

\* the gaps left and right of e are equal, and those below and above, up to
\* the hundredth of a point lengths are kept in
InTheMiddle(e, b) ==
  /\ Abs((e.x - b.x) - ((b.x + SignatureBoxWidth) - (e.x + e.width))) <= 1
  /\ Abs((e.y - b.y) - ((b.y + SignatureBoxHeight) - (e.y + e.height))) <= 1

\* width : height of e is that of the image, up to the hundredth of a point
\* the computed side is rounded to
KeepsAspect(e, png) ==
  /\ e.width > 0 /\ e.height > 0
  /\ Abs(e.width * png.height - e.height * png.width) < Max(png.width, png.height)

\* C27: for every image of positive width and height the rectangle
\* embedSignature draws lies inside the box it was given (no wider, no
\* higher, offsets not negative), has the aspect ratio of the image, and is
\* centered in the box.
C27_ImageInsideBox ==
  \A i \in SignatureImages(trace) :
    Bind(SignatureOf(formData, LabelOf(trace[i - 1])), LAMBDA png :
      /\ png.width > 0 /\ png.height > 0
      /\ Inside(trace[i], BoxOf(trace[i - 1]))
      /\ KeepsAspect(trace[i], png)
      /\ InTheMiddle(trace[i], BoxOf(trace[i - 1])))

\* a page with an image that leaves room at its sides and one that leaves
\* room below and above
C27_Witness ==
  /\ \E i \in SignatureImages(trace) :
       /\ trace[i].width < SignatureBoxWidth
       /\ trace[i].x > BoxOf(trace[i - 1]).x
  /\ \E i \in SignatureImages(trace) :
       /\ trace[i].height < SignatureBoxHeight
       /\ trace[i].y > BoxOf(trace[i - 1]).y

----------------------------------------------------------------------------
(* The bottom margin *)

\* the text and image draw calls of tr
Content(tr) == {i \in 1..Len(tr) : tr[i].op \in {"text", "image"}}

\* C28: for every record every text and image draw call of
\* addComprehensivePage is at or above the bottom margin, y >= 20.
C28_AboveBottomMargin ==
  \A i \in Content(trace) : trace[i].y >= margin

----------------------------------------------------------------------------
(* The two renderings of a control value *)

\* the rows of a table fillForm has gone through: those of the array, as
\* far as the table has fields
FilledRows(step, controls, FIELDS) ==
  IF (pdfForm.at = "filled" \/ (pdfForm.at = "filling" /\ pdfForm.step > step))
     /\ controls.t = "array"
  THEN 1..Min(Len(controls.items), Len(FIELDS))
  ELSE {}

\* is the _uygun checkbox of a row checked
Checked(FIELDS, k) ==
  /\ <<FIELDS[k], "_uygun">> \in DOMAIN pdfForm.fields
  /\ pdfForm.fields[<<FIELDS[k], "_uygun">>].checked

SameDecision(step, controls, FIELDS) ==
  \A k \in FilledRows(step, controls, FIELDS) :
    /\ Checked(FIELDS, k) <=> statusText(controls.items[k]) = S_Suitable
    /\ controls.items[k] \in {Str(S_uygunsuz), Bool(FALSE), Str(S_off)}
         => ~Checked(FIELDS, k)

\* C26: for every raw control value PDFFormGenerator checks the _uygun
\* checkbox of the row exactly when drawControlTable writes "✓ Uygun" for
\* the same value; "uygunsuz", false and "off" never leave it checked.
C26_SameDecision ==
  /\ SameDecision(4, pdfForm.formData.fizikiKontrol, FIZIKI_FIELDS)
  /\ SameDecision(5, pdfForm.formData.zulaKontrol, ZULA_FIELDS)

----------------------------------------------------------------------------
(* The guards *)

\* a PDFFormGenerator whose fillForm threw at its guard has no field set and
\* no image drawn, and none has as long as it has no template
NothingFilled ==
  (pdfForm.result = "not loaded" \/ pdfForm.form = "null")
    => pdfForm.fields = NoFields /\ pdfForm.images = <<>>

\* a generatePDF call on a generator without document or font rejects with
\* "PDF Generator not initialized" and leaves every field as it was; a
\* fillForm call on a generator without template throws and leaves the
\* fields of the form as they were
GuardSteps ==
  /\ (result' # result /\ (pdfDoc = "null" \/ unicodeFont = "null"))
       => /\ result'.status = "rejected"
          /\ result'.error = "not initialized"
          /\ result'.pages = 0
          /\ UNCHANGED <<pdfDoc, pageCount, unicodeFont, currentY, pageHeight, pageWidth,
                         formData, pc, trace>>
  /\ (pdfForm'.at = "thrown" /\ pdfForm.at # "thrown")
       => /\ pdfForm.form = "null" \/ pdfForm.pdfDoc = "null"
          /\ pdfForm'.result = "not loaded"
          /\ pdfForm'.fields = pdfForm.fields
          /\ pdfForm'.images = pdfForm.images
          /\ pdfForm'.form = pdfForm.form

\* C29: generatePDF on a DynamicPDFGenerator whose initialize has not
\* completed throws "PDF Generator not initialized" without adding a page or
\* moving the cursor; fillForm on a PDFFormGenerator whose loadTemplate has
\* not completed throws without setting any field of the form.
C29_GuardsThrowFirst == []NothingFilled /\ [][GuardSteps]_vars

\* both guards have thrown: generatePDF before initialize, fillForm after a
\* loadTemplate that failed
C29_Witness ==
  /\ result.status = "rejected" /\ result.error = "not initialized"
  /\ pageCount = 0 /\ trace = <<>>
  /\ pdfForm.at = "thrown" /\ pdfForm.result = "not loaded"
  /\ pdfForm.formData.tasiyiciFirma # Undef
  /\ pdfForm.fields = NoFields

----------------------------------------------------------------------------
(* The migration *)

\* C23: with dryRun = true migrateBase64ToStorage changes nothing for any
\* form: no step of the call uploads a photo or a signature to storage, and
\* none updates a row of the forms table.
C23_DryRunChangesNothing ==
  [][(migration.at # "idle" /\ migration.dryRun)
       => (storage' = storage /\ database' = database)]_vars

\* the object storage holds at path, if any
ObjectsAt(path) == {o \in storage : o.path = path}

\* C30: in live mode migrateBase64ToStorage replaces the kontrolEdenImza of
\* a form only by the storage path of the inspector's signature of that
\* form; when the only base64 signature of the form is a driver's,
\* kontrolEdenImza stays as it was.
C30_OwnSignatureOnly ==
  [][\A id \in 1..Len(database) :
       (migration.at = "update" /\ ~migration.dryRun
        /\ database'[id].kontrolEdenImza # database[id].kontrolEdenImza)
       => /\ id = migration.index
          /\ isBase64(migration.forms[id].kontrolEdenImza)
          /\ database'[id].kontrolEdenImza = Path("signature", id, 0)
          /\ \A o \in ObjectsAt(Path("signature", id, 0)) :
               o.content = migration.forms[id].kontrolEdenImza]_vars

====
